---- MODULE Spec2Model ----
(***************************************************************************)
(* A model of graphql-weaver's schema transformer, proxy resolver, link    *)
(* helpers and error-path rewriter.                                        *)
(*                                                                         *)
(* The module holds state machines over disjoint groups of variables:      *)
(*   SpecTransform  schema-transformer.ts  Transformer.transform           *)
(*   SpecProxy      proxy-resolver.ts / schema.ts  createResolver          *)
(*   SpecRouting    the same, over requests on several endpoints           *)
(*   SpecLink       link-helpers.ts  fetchLinkedObjects, fetchJoinedObjects*)
(*   SpecErr        schema-transformer.ts  prefixGraphQLErrorPath          *)
(*   SpecCombine    schema-transformer.ts  combineTransformers             *)
(*   SpecRoot       schema-transformer.ts  ResolverTransformer             *)
(*   SpecKeyType    link-helpers.ts  getKeyType                            *)
(* Each specification keeps the variables of the others at their idle      *)
(* values.                                                                 *)
(***************************************************************************)
EXTENDS Integers, Sequences, FiniteSets, TLC

VARIABLES
    \* ---- Transformer (schema-transformer.ts) ----
    schema,        \* the old GraphQLSchema handed to transformSchema
    transformers,  \* the SchemaTransformer handed to transformSchema
    typeMap,       \* Transformer.typeMap: old type name -> new type
    typeOrder,     \* insertion order of the keys of typeMap
    fieldMaps,     \* old type name -> field config map of an evaluated thunk
    newSchema,     \* the GraphQLSchema config transform() returns, or Nil
    tpc,           \* position in transform(): "process", "thunks", "done", "failed"
    idx,           \* index of the next type / thunk
    terror,        \* the error thrown, or Nil
    invoked,       \* the calls of the transformers' callbacks so far, in order
    resolvedType,  \* the last call of a new type resolver, or Nil
    \* ---- Proxy resolver (proxy-resolver.ts, schema.ts) ----
    resolverTable, \* createSchema: per endpoint, the resolver config of each root kind
    doc,           \* the request's AST as it is now: info.fieldNodes, info.fragments
    origDoc,       \* the request's AST as the client wrote it
    rootEndpoint,  \* root field -> the endpoint its field originated in
    opKind,        \* the operation kind of the request
    reqContext,    \* the per-request context value
    resolved,      \* root field -> number of resolver invocations so far
    sent,          \* the upstream calls made so far, in order
    outcomes,      \* the resolver invocations so far, in order
    \* ---- Links (link-helpers.ts) ----
    linkCall,      \* the params of the fetchLinkedObjects call, or Nil
    executed,      \* the sub-queries handed to execute() so far, in order
    responses,     \* per sub-query: the upstream's answer, or Nil while pending
    settled,       \* per sub-query: how the promise of its fetch settled, or Nil
    lpc,           \* position of the call: "idle", "called", "awaiting", "settled"
    \* ---- Error paths (prefixGraphQLErrorPath) ----
    error,         \* the error handed to prefixGraphQLErrorPath, or Nil
    pathPrefix,    \* the outer ResponsePath handed to it
    removePrefixLength,  \* the number of leading segments to drop
    newError,      \* the error it returned, or Nil
    epc,           \* "idle", "called", "returned"
    \* ---- Functions called once (combineTransformers, getKeyType) ----
    fnCall,        \* the function called and its arguments, or Nil
    fnReturned,    \* what the call returned or threw, or Nil while it runs
    \* ---- Root-field resolver (ResolverTransformer.transformField) ----
    rootInfo,      \* the response path and context of the resolver call, or Nil
    rootExecuted,  \* the query handed to client.execute, or Nil
    rootResult,    \* how assertSuccessfulResult ended, or Nil while pending
    rootReturned   \* what the resolver returned or threw, or Nil while it runs

tvars ==
    <<schema, transformers, typeMap, typeOrder, fieldMaps, newSchema, tpc, idx, terror,
      invoked, resolvedType>>
pvars == <<resolverTable, doc, origDoc, rootEndpoint, opKind, reqContext, resolved, sent, outcomes>>

lvars == <<linkCall, executed, responses, settled, lpc>>
evars == <<error, pathPrefix, removePrefixLength, newError, epc>>
fvars == <<fnCall, fnReturned>>
rvars == <<rootInfo, rootExecuted, rootResult, rootReturned>>

vars == <<tvars, pvars, lvars, evars, fvars, rvars>>

\* what the actions of one state machine leave alone
notT == <<pvars, lvars, evars, fvars, rvars>>
notP == <<tvars, lvars, evars, fvars, rvars>>
notL == <<tvars, pvars, evars, fvars, rvars>>
notE == <<tvars, pvars, lvars, fvars, rvars>>
notF == <<tvars, pvars, lvars, evars, rvars>>
notR == <<tvars, pvars, lvars, evars, fvars>>

None == "None"
\* no value, where the value would be a record
Nil == [kind |-> "Nil"]

(***************************************************************************)
(* Generic helpers                                                         *)
(***************************************************************************)
Range(s) == {s[i] : i \in 1..Len(s)}

SeqMap(Op(_), s) == [i \in 1..Len(s) |-> Op(s[i])]

RECURSIVE SelectSeqOf(_, _)
\* the subsequence of s whose elements are in set S (Array.prototype.filter)
SelectSeqOf(s, S) ==
    IF s = <<>> THEN <<>>
    ELSE IF Head(s) \in S THEN <<Head(s)>> \o SelectSeqOf(Tail(s), S)
    ELSE SelectSeqOf(Tail(s), S)

\* all orderings of a finite set, as sequences
Perms(S) ==
    {s \in [1..Cardinality(S) -> S] : \A i, j \in 1..Cardinality(S) : i # j => s[i] # s[j]}

(***************************************************************************)
(* GraphQL types of the old schema                                         *)
(***************************************************************************)
Named(n) == [kind |-> "Named", name |-> n]
ListOf(t) == [kind |-> "List", ofType |-> t]
NonNullOf(t) == [kind |-> "NonNull", ofType |-> t]
\* a reference to the type object of the new schema registered under old name n
NewNamed(n) == [kind |-> "NewNamed", key |-> n]

Arg(n, t, d) == [name |-> n, type |-> t, defaultValue |-> d]
Field(n, t, a) == [name |-> n, type |-> t, args |-> a, defaultValue |-> None]
InputField(n, t, d) == [name |-> n, type |-> t, args |-> <<>>, defaultValue |-> d]

Type(k, n, f, i, t, v) ==
    [kind |-> k, name |-> n, fields |-> f, interfaces |-> i, types |-> t, values |-> v]

NativeScalars == {"String", "Int", "Float", "Boolean", "ID"}
IntrospectionNames == {"__Schema", "__Type"}
NativeDirectives == {"skip", "include", "deprecated"}

\* native-symbols.isNativeGraphQLType: a built-in scalar singleton
isNativeGraphQLType(name) == name \in NativeScalars

isNativeDirective(name) == name \in NativeDirectives

\* no name taken for the name of an introspection type
NoIntrospectionPrefix(name) == FALSE

\* type.name.substring(0, 2) === '__'
StartsWithUnderscores(name) == name \in IntrospectionNames

(***************************************************************************)
(* The schemas transformSchema is run on: FullTypes restricted to a set of *)
(* present type names (fields, members and interfaces that name an absent  *)
(* type are left out, so every schema is closed).                          *)
(***************************************************************************)
MaxOptional == 3

MandatoryFirst == <<"Query">>
MandatoryLast == <<"String", "__Type">>
OptionalTypes == {"Node", "Pet", "Person", "SearchResult", "Color", "Filter", "Date", "Printer"}

FullTypes ==
    [n \in {"Query", "String", "__Type"} \cup OptionalTypes |->
        CASE n = "Query" ->
               Type("Object", n,
                    <<Field("hello", Named("String"), <<>>),
                      Field("node", Named("Node"), <<Arg("id", NonNullOf(Named("String")), None)>>),
                      Field("pet", Named("Pet"), <<>>),
                      Field("search", ListOf(NonNullOf(Named("SearchResult"))),
                            <<Arg("filter", Named("Filter"), "dflt")>>),
                      Field("today", Named("Date"), <<>>)>>,
                    <<>>, <<>>, <<>>)
          [] n = "Node" ->
               Type("Interface", n,
                    <<Field("id", NonNullOf(Named("String")), <<>>),
                      Field("owner", Named("Pet"), <<>>)>>,
                    <<>>, <<>>, <<>>)
          [] n = "Pet" ->
               Type("Object", n,
                    <<Field("id", NonNullOf(Named("String")), <<>>),
                      Field("owner", Named("Pet"), <<>>),
                      Field("friends", ListOf(Named("Node")), <<>>),
                      Field("color", Named("Color"), <<>>)>>,
                    <<"Node">>, <<>>, <<>>)
          [] n = "Person" ->
               Type("Object", n,
                    <<Field("name", Named("String"), <<>>),
                      Field("found", Named("SearchResult"), <<>>)>>,
                    <<>>, <<>>, <<>>)
          [] n = "SearchResult" ->
               Type("Union", n, <<>>, <<>>, <<"Pet", "Person">>, <<>>)
          [] n = "Color" ->
               Type("Enum", n, <<>>, <<>>, <<>>, <<"RED", "GREEN">>)
          [] n = "Filter" ->
               Type("Input", n,
                    <<InputField("text", Named("String"), "any"),
                      InputField("color", Named("Color"), None),
                      InputField("and", ListOf(NonNullOf(Named("Filter"))), None)>>,
                    <<>>, <<>>, <<>>)
          [] n = "Date" ->
               Type("Scalar", n, <<>>, <<>>, <<>>, <<>>)
          [] n = "Printer" ->
               Type("Object", n,
                    <<Field("name", Named("String"), <<>>),
                      Field("toString", Named("String"), <<>>)>>,
                    <<>>, <<>>, <<>>)
          [] n = "String" ->
               Type("Scalar", n, <<>>, <<>>, <<>>, <<>>)
          [] n = "__Type" ->
               Type("Object", n, <<Field("name", Named("String"), <<>>)>>, <<>>, <<>>, <<>>)]

FullDirectives ==
    <<[name |-> "skip", args |-> <<Arg("if", NonNullOf(Named("String")), None)>>],
      [name |-> "auth", args |-> <<Arg("role", Named("String"), "USER")>>]>>

RECURSIVE NamedTypeOf(_)
\* getNamedType: the innermost named type of a wrapped type
NamedTypeOf(t) == IF t.kind \in {"List", "NonNull"} THEN NamedTypeOf(t.ofType) ELSE t.name

FieldRefs(f) == {NamedTypeOf(f.type)} \cup {NamedTypeOf(f.args[i].type) : i \in 1..Len(f.args)}

\* one type of FullTypes with what names an absent type left out
RestrictType(t, present) ==
    [t EXCEPT !.fields = SelectSeqOf(t.fields, {f \in Range(t.fields) : FieldRefs(f) \subseteq present}),
              !.interfaces = SelectSeqOf(t.interfaces, present),
              !.types = SelectSeqOf(t.types, present)]

\* the references of a type: fields, arguments, interface list, union members
TypeRefs(t) ==
    UNION {FieldRefs(t.fields[i]) : i \in 1..Len(t.fields)}
        \cup Range(t.interfaces) \cup Range(t.types)

MakeSchema(present, order) ==
    [types |-> [n \in present |-> RestrictType(FullTypes[n], present)],
     order |-> order,
     directives |-> FullDirectives,
     query |-> "Query",
     mutation |-> None,
     subscription |-> None]

\* every named type a type refers to is in the type map
Closed(s) == \A n \in DOMAIN s.types : TypeRefs(s.types[n]) \subseteq DOMAIN s.types

\* a union has at least one member type
WellFormed(s) ==
    \A n \in DOMAIN s.types : s.types[n].kind = "Union" => s.types[n].types # <<>>

Schemas ==
    {s \in UNION {
        {MakeSchema(Range(MandatoryFirst) \cup opt \cup Range(MandatoryLast),
                    MandatoryFirst \o o \o MandatoryLast) : o \in Perms(opt)}
        : opt \in {x \in SUBSET OptionalTypes : Cardinality(x) <= MaxOptional}}
     : WellFormed(s)}

(***************************************************************************)
(* Transformer sets.  A transformer set gives, for each category, a        *)
(* callback or Nil (undefined).  A callback written by a user changes the  *)
(* name of the config it is given: "prefix" puts the callback's tag in     *)
(* front of it (the type renamer of the weaver does this), "set" replaces  *)
(* it by the tag, "throw" leaves it alone and throws.  A callback made by  *)
(* combineTransformationFunctions holds the callbacks it runs.             *)
(***************************************************************************)
Categories ==
    {"Scalar", "Enum", "Interface", "Input", "Union", "Object", "Directive", "Field", "InputField"}

TypeCategories == {"Scalar", "Enum", "Interface", "Input", "Union", "Object"}

Callback(tag, op) == [kind |-> "Callback", tag |-> tag, op |-> op]

\* a SchemaTransformer object that defines the same callback for each
\* category of cats and none for the others
SchemaTransformer(tag, op, cats) ==
    [cat \in Categories |-> IF cat \in cats THEN Callback(tag, op) ELSE Nil]

TypeRenamer == SchemaTransformer("A_", "prefix", TypeCategories)
FieldTagger == SchemaTransformer("x_", "prefix", {"Field", "InputField", "Directive"})
FieldMerger == SchemaTransformer("same", "set", {"Field", "InputField"})

\* only a callback written by a user is taken from t
bindOwnCallback(t, cat) == IF t[cat].kind = "Callback" THEN t[cat] ELSE Nil

\* bind(t.transformXxx, t): the callback, or undefined when t defines none
bind(t, cat) == t[cat]

RECURSIVE FilterDefined(_)
\* fns.filter(a => a)
FilterDefined(fns) ==
    IF fns = <<>> THEN <<>>
    ELSE IF Head(fns) = Nil THEN FilterDefined(Tail(fns))
    ELSE <<Head(fns)>> \o FilterDefined(Tail(fns))

\* combineTransformationFunctions, lines 80-89
combineTransformationFunctions(fns) ==
    LET definedFns == FilterDefined(fns)
    IN IF Len(definedFns) = 0 THEN Nil
       ELSE [kind |-> "Combined", definedFns |-> definedFns]

\* combineTransformers, lines 98-110
combineTransformers(ts) ==
    [cat \in Categories |->
        combineTransformationFunctions([i \in 1..Len(ts) |-> bind(ts[i], cat)])]

TransformerSets ==
    {combineTransformers(<<>>),
     combineTransformers(<<TypeRenamer>>),
     combineTransformers(<<TypeRenamer, FieldTagger>>),
     combineTransformers(<<FieldMerger>>)}

\* what one call of a user's callback does to the config's name
Mutate(fn, name) ==
    CASE fn.op = "prefix" -> <<fn.tag>> \o name
      [] fn.op = "set" -> <<fn.tag>>
      [] OTHER -> name

RECURSIVE Invoke(_, _, _)
RECURSIVE ForEach(_, _, _)
\* fn(config, context): the config as the call leaves it, the calls of users'
\* callbacks it made (each with the name it found in the config and the
\* context it was given) and whether it threw
Invoke(fn, config, context) ==
    IF fn.kind = "Callback"
    THEN [config |-> [config EXCEPT !.name = Mutate(fn, @)],
          calls |-> <<[tag |-> fn.tag, saw |-> config.name, context |-> context]>>,
          threw |-> fn.op = "throw"]
    ELSE ForEach(fn.definedFns, config, context)

\* definedFns.forEach(fn => fn(config, context)): an exception ends the loop
ForEach(fns, config, context) ==
    IF fns = <<>> THEN [config |-> config, calls |-> <<>>, threw |-> FALSE]
    ELSE LET first == Invoke(Head(fns), config, context)
             rest == ForEach(Tail(fns), first.config, context)
         IN IF first.threw THEN first
            ELSE [config |-> rest.config, calls |-> first.calls \o rest.calls, threw |-> rest.threw]

\* this.transformationContext, and the context of a field callback
TransformationContext == [oldOuterType |-> None, newOuterType |-> Nil]
FieldContext(old, new) == [oldOuterType |-> old, newOuterType |-> new]

\* if (this.transformers.transformXxx) this.transformers.transformXxx(config, context)
ApplyTransformer(trs, cat, config, context) ==
    IF trs[cat] # Nil THEN Invoke(trs[cat], config, context).config ELSE config

(***************************************************************************)
(* Transformer                                                             *)
(***************************************************************************)
Err(what, n) == [kind |-> "Error", what |-> what, name |-> n]
IsErr(x) == x.kind = "Error"

\* Transformer.findType: the new type registered under the old name
findType(oldName, tm) ==
    IF oldName \notin DOMAIN tm THEN Err("Unexpected reference to type", oldName)
    ELSE NewNamed(oldName)

RECURSIVE mapType(_, _)
\* Transformer.mapType
mapType(type, tm) ==
    IF type.kind = "List"
    THEN LET inner == mapType(type.ofType, tm)
         IN IF IsErr(inner) THEN inner ELSE ListOf(inner)
    ELSE IF type.kind = "NonNull"
    THEN LET inner == mapType(type.ofType, tm)
         IN IF IsErr(inner) THEN inner ELSE NonNullOf(inner)
    ELSE IF isNativeGraphQLType(type.name) THEN type
    ELSE findType(type.name, tm)

\* the first error of a sequence of results, or Nil
FirstError(rs) ==
    IF \E i \in 1..Len(rs) : IsErr(rs[i])
    THEN rs[CHOOSE i \in 1..Len(rs) : IsErr(rs[i]) /\ \A j \in 1..(i - 1) : ~IsErr(rs[j])]
    ELSE Nil

\* names.map(n => this.mapType(n)): the mapped list, or the first error thrown
MapNames(names, tm) ==
    LET rs == [i \in 1..Len(names) |-> mapType(Named(names[i]), tm)]
    IN IF FirstError(rs) # Nil THEN FirstError(rs) ELSE [kind |-> "List", items |-> rs]

\* Transformer.transformArguments
transformArguments(originalArgs, tm) ==
    LET ts == [i \in 1..Len(originalArgs) |-> mapType(originalArgs[i].type, tm)]
    IN IF FirstError(ts) # Nil THEN FirstError(ts)
       ELSE [kind |-> "Args",
             args |-> [i \in 1..Len(originalArgs) |->
                         [name |-> originalArgs[i].name,
                          type |-> ts[i],
                          defaultValue |-> originalArgs[i].defaultValue]]]

\* property names every object created by {} inherits from Object.prototype
ObjectPrototypeKeys == {"constructor", "toString", "valueOf"}

\* `name in fields`, fields being an object created by {} whose own
\* properties are the names of the configs of `fields`: own and inherited
\* properties are found
HasProperty(fields, name) ==
    \/ \E i \in 1..Len(fields) : fields[i].name = name
    \/ Len(name) = 1 /\ name[1] \in ObjectPrototypeKeys

RECURSIVE transformFieldsFrom(_, _, _, _, _, _)
\* the loop of Transformer.transformFields and of getFields in
\* transformInputObjectType: fields is the map built so far
transformFieldsFrom(originalFields, fields, cat, outer, tm, trs) ==
    IF originalFields = <<>> THEN [kind |-> "Fields", fields |-> fields]
    ELSE LET originalField == Head(originalFields)
             type == mapType(originalField.type, tm)
             args == transformArguments(originalField.args, tm)
             newOuter == mapType(Named(outer), tm)
         IN IF IsErr(type) THEN type
            ELSE IF cat = "Field" /\ IsErr(args) THEN args
            ELSE IF cat = "InputField" /\ trs[cat] # Nil /\ IsErr(newOuter) THEN newOuter
            ELSE LET fieldConfig ==
                         ApplyTransformer(trs, cat,
                             [name |-> <<originalField.name>>,
                              type |-> type,
                              args |-> IF cat = "Field" THEN args.args ELSE <<>>,
                              defaultValue |-> originalField.defaultValue],
                             FieldContext(outer, newOuter))
                 IN IF HasProperty(fields, fieldConfig.name)
                    THEN Err("Duplicate field name", outer)
                    ELSE transformFieldsFrom(Tail(originalFields), Append(fields, fieldConfig),
                                             cat, outer, tm, trs)

\* Transformer.transformFields, called by the fields thunk of an object or
\* interface type: the context is built first (newOuterType: this.mapType(type))
transformFields(type, tm, trs) ==
    LET newOuter == mapType(Named(type.name), tm)
    IN IF IsErr(newOuter) THEN newOuter
       ELSE transformFieldsFrom(type.fields, <<>>, "Field", type.name, tm, trs)

\* getFields of Transformer.transformInputObjectType
transformInputFields(type, tm, trs) ==
    transformFieldsFrom(type.fields, <<>>, "InputField", type.name, tm, trs)

\* the fields thunk of the new type cloned from old type `type`
EvalFieldsThunk(type, tm, trs) ==
    IF type.kind = "Input" THEN transformInputFields(type, tm, trs)
    ELSE transformFields(type, tm, trs)

NewType(k, key, n, i, t, v) ==
    [kind |-> k, key |-> key, name |-> n, interfaces |-> i, types |-> t, values |-> v]

transformScalarType(type, tm, trs) ==
    ApplyTransformer(trs, "Scalar",
        NewType("Scalar", type.name, <<type.name>>, <<>>, <<>>, <<>>), TransformationContext)

transformObjectType(type, tm, trs) ==
    LET interfaces == MapNames(type.interfaces, tm)
    IN IF IsErr(interfaces) THEN interfaces
       ELSE ApplyTransformer(trs, "Object",
                NewType("Object", type.name, <<type.name>>, interfaces.items, <<>>, <<>>), TransformationContext)

transformInputObjectType(type, tm, trs) ==
    ApplyTransformer(trs, "Input",
        NewType("Input", type.name, <<type.name>>, <<>>, <<>>, <<>>), TransformationContext)

transformInterfaceType(type, tm, trs) ==
    ApplyTransformer(trs, "Interface",
        NewType("Interface", type.name, <<type.name>>, <<>>, <<>>, <<>>), TransformationContext)

transformUnionType(type, tm, trs) ==
    LET types == MapNames(type.types, tm)
    IN IF IsErr(types) THEN types
       ELSE ApplyTransformer(trs, "Union",
                NewType("Union", type.name, <<type.name>>, <<>>, types.items, <<>>), TransformationContext)

transformEnumType(type, tm, trs) ==
    ApplyTransformer(trs, "Enum",
        NewType("Enum", type.name, <<type.name>>, <<>>, <<>>, type.values), TransformationContext)

\* Transformer.transformType
transformType(type, tm, trs) ==
    CASE type.kind = "Scalar" -> transformScalarType(type, tm, trs)
      [] type.kind = "Object" -> transformObjectType(type, tm, trs)
      [] type.kind = "Input" -> transformInputObjectType(type, tm, trs)
      [] type.kind = "Interface" -> transformInterfaceType(type, tm, trs)
      [] type.kind = "Union" -> transformUnionType(type, tm, trs)
      [] type.kind = "Enum" -> transformEnumType(type, tm, trs)
      [] OTHER -> Err("Unsupported type", type.name)

\* Transformer.transformDirective
transformDirective(directive, tm, trs) ==
    LET args == transformArguments(directive.args, tm)
    IN IF IsErr(args) THEN args
       ELSE ApplyTransformer(trs, "Directive",
                [kind |-> "Directive", name |-> <<directive.name>>, args |-> args.args],
                TransformationContext)

\* the types of the old schema, interfaces first (transform, lines 135-139)
\* (a mutation of orderedTypes) the types in the order of the type map
originalTypes(s) == s.order

orderedTypes(s) ==
    SelectSeqOf(s.order, {n \in DOMAIN s.types : s.types[n].kind = "Interface"})
        \o SelectSeqOf(s.order, {n \in DOMAIN s.types : s.types[n].kind # "Interface"})

(***************************************************************************)
(* transformSchema as a state machine                                      *)
(***************************************************************************)
TIdle ==
    /\ schema = Nil
    /\ transformers = Nil
    /\ typeMap = <<>>
    /\ typeOrder = <<>>
    /\ fieldMaps = <<>>
    /\ newSchema = Nil
    /\ tpc = "idle"
    /\ idx = 0
    /\ terror = Nil
    /\ invoked = <<>>
    /\ resolvedType = Nil

TInit ==
    /\ schema \in Schemas
    /\ transformers \in TransformerSets
    /\ typeMap = <<>>
    /\ typeOrder = <<>>
    /\ fieldMaps = <<>>
    /\ newSchema = Nil
    /\ tpc = "process"
    /\ idx = 1
    /\ terror = Nil
    /\ invoked = <<>>
    /\ resolvedType = Nil

\* the calls of the callback of category cat made for the type or directive
\* `on`: one if the transformer set defines the callback, none otherwise
CallbackLog(trs, cat, on) ==
    IF trs[cat] # Nil THEN <<[cat |-> cat, on |-> on]>> ELSE <<>>

\* one iteration of the loop over orderedTypes: processType(type)
ProcessType ==
    /\ tpc = "process"
    /\ idx <= Len(orderedTypes(schema))
    /\ LET name == orderedTypes(schema)[idx]
           type == schema.types[name]
       IN IF StartsWithUnderscores(name) \/ isNativeGraphQLType(name)
          THEN /\ idx' = idx + 1
               /\ UNCHANGED <<typeMap, typeOrder, tpc, terror, invoked>>
          ELSE LET new == transformType(type, typeMap, transformers)
               IN IF IsErr(new)
                  THEN /\ tpc' = "failed"
                       /\ terror' = new
                       /\ UNCHANGED <<typeMap, typeOrder, idx, invoked>>
                  ELSE /\ typeMap' = typeMap @@ (name :> new)
                       /\ typeOrder' = Append(typeOrder, name)
                       /\ idx' = idx + 1
                       /\ invoked' = invoked \o CallbackLog(transformers, type.kind, name)
                       /\ UNCHANGED <<tpc, terror>>
    /\ UNCHANGED <<schema, transformers, fieldMaps, newSchema, resolvedType>>
    /\ UNCHANGED notT

findNewTypeMaybe(name, tm) == IF name = None THEN Nil ELSE findType(name, tm)

\* the rest of transform(): the directives and the new GraphQLSchema config
BuildSchema ==
    /\ tpc = "process"
    /\ idx > Len(orderedTypes(schema))
    /\ LET ds == [i \in 1..Len(schema.directives) |->
                     IF isNativeDirective(schema.directives[i].name)
                     THEN [kind |-> "Directive", name |-> <<schema.directives[i].name>>,
                           args |-> schema.directives[i].args]
                     ELSE transformDirective(schema.directives[i], typeMap, transformers)]
           q == findNewTypeMaybe(schema.query, typeMap)
           m == findNewTypeMaybe(schema.mutation, typeMap)
           sub == findNewTypeMaybe(schema.subscription, typeMap)
           roots == <<q, m, sub>>
       IN IF FirstError(ds) # Nil \/ FirstError(roots) # Nil
          THEN /\ tpc' = "failed"
               /\ terror' = IF FirstError(ds) # Nil THEN FirstError(ds) ELSE FirstError(roots)
               /\ UNCHANGED <<newSchema, idx, invoked>>
          ELSE /\ newSchema' = [types |-> typeOrder, directives |-> ds,
                                query |-> q, mutation |-> m, subscription |-> sub]
               /\ tpc' = "thunks"
               /\ idx' = 1
               /\ terror' = Nil
               /\ invoked' = invoked \o SelectSeq(
                     [i \in 1..Len(schema.directives) |-> [cat |-> "Directive", on |-> schema.directives[i].name]],
                     LAMBDA c : ~isNativeDirective(c.on) /\ transformers["Directive"] # Nil)
    /\ UNCHANGED <<schema, transformers, typeMap, typeOrder, fieldMaps, resolvedType>>
    /\ UNCHANGED notT

HasFields(kind) == kind \in {"Object", "Interface", "Input"}

\* the schema evaluates the fields thunk of the idx-th new type
EvalThunk ==
    /\ tpc = "thunks"
    /\ idx <= Len(typeOrder)
    /\ LET name == typeOrder[idx]
           type == schema.types[name]
           cat == IF type.kind = "Input" THEN "InputField" ELSE "Field"
       IN IF ~HasFields(type.kind)
          THEN /\ idx' = idx + 1
               /\ UNCHANGED <<fieldMaps, tpc, terror, invoked>>
          ELSE LET fs == EvalFieldsThunk(type, typeMap, transformers)
               IN /\ IF IsErr(fs)
                     THEN /\ tpc' = "failed"
                          /\ terror' = fs
                          /\ UNCHANGED <<fieldMaps, idx>>
                     ELSE /\ fieldMaps' = fieldMaps @@ (name :> fs.fields)
                          /\ idx' = idx + 1
                          /\ UNCHANGED <<tpc, terror>>
                  /\ invoked' = IF Len(type.fields) > 0
                                    /\ (IsErr(fs) => fs.what = "Duplicate field name")
                                THEN invoked \o CallbackLog(transformers, cat, name)
                                ELSE invoked
    /\ UNCHANGED <<schema, transformers, typeMap, typeOrder, newSchema, resolvedType>>
    /\ UNCHANGED notT

\* every thunk has been evaluated: transformSchema and the schema are done
Finish ==
    /\ tpc = "thunks"
    /\ idx > Len(typeOrder)
    /\ tpc' = "done"
    /\ UNCHANGED <<schema, transformers, typeMap, typeOrder, fieldMaps, newSchema, idx, terror,
                   invoked, resolvedType>>
    /\ UNCHANGED notT

\* what a type resolver may return
TypeNameString(n) == [kind |-> "string", value |-> n]
Promise(v) == [kind |-> "Promise", value |-> v]

\* the object types an abstract type of the old schema may resolve to
PossibleTypes(s, a) ==
    IF s.types[a].kind = "Union" THEN Range(s.types[a].types)
    ELSE {n \in DOMAIN s.types : s.types[n].kind = "Object" /\ a \in Range(s.types[n].interfaces)}

\* what the resolveType of old abstract type a may return: the name of an
\* object type, the type object, or a promise of either
TypeResolverResults(s, a) ==
    UNION {{TypeNameString(n), Named(n), Promise(TypeNameString(n)), Promise(Named(n))} :
              n \in PossibleTypes(s, a)}

\* the old resolver's result handed on as it is
keepOldResolverResult(result, tm) == result

\* the function transformTypeResolver returns (lines 416-424), applied to
\* the result of the old resolver
transformTypeResolver(result, tm) ==
    IF result.kind = "string" THEN findType(result.value, tm)
    ELSE IF result.kind = "Named" THEN mapType(result, tm)
    ELSE Promise(IF result.value.kind = "string" THEN findType(result.value.value, tm)
                 ELSE mapType(result.value, tm))

\* at request time the executor calls the resolveType of a new interface or
\* union type; the old resolver it wraps returns `result`
ResolveType ==
    /\ tpc = "done"
    /\ \E a \in DOMAIN typeMap :
          /\ schema.types[a].kind \in {"Interface", "Union"}
          /\ \E result \in TypeResolverResults(schema, a) :
                resolvedType' = [abstract |-> a, old |-> result,
                                 new |-> transformTypeResolver(result, typeMap)]
    /\ UNCHANGED <<schema, transformers, typeMap, typeOrder, fieldMaps, newSchema, tpc, idx, terror,
                   invoked>>
    /\ UNCHANGED notT

TNext == ProcessType \/ BuildSchema \/ EvalThunk \/ Finish \/ ResolveType

(***************************************************************************)
(* The structure of a schema: what two structurally equal schemas share    *)
(***************************************************************************)
RECURSIVE PrintType(_, _)
\* a type as written in the schema language, naming new types by their new name
PrintType(t, tm) ==
    CASE t.kind = "List" -> <<"[">> \o PrintType(t.ofType, tm) \o <<"]">>
      [] t.kind = "NonNull" -> PrintType(t.ofType, tm) \o <<"!">>
      [] t.kind = "NewNamed" -> tm[t.key].name
      [] OTHER -> <<t.name>>

ArgsSig(args, tm) ==
    [i \in 1..Len(args) |->
        [name |-> args[i].name, type |-> PrintType(args[i].type, tm),
         defaultValue |-> args[i].defaultValue]]

\* the types transform() clones: neither introspection types nor built-in scalars
UserTypes(s) ==
    {n \in DOMAIN s.types : ~StartsWithUnderscores(n) /\ ~isNativeGraphQLType(n)}

OldTypeSig(t) ==
    [kind |-> t.kind,
     name |-> <<t.name>>,
     fields |-> [i \in 1..Len(t.fields) |->
                   [name |-> <<t.fields[i].name>>,
                    type |-> PrintType(t.fields[i].type, <<>>),
                    args |-> ArgsSig(t.fields[i].args, <<>>),
                    defaultValue |-> t.fields[i].defaultValue]],
     interfaces |-> [i \in 1..Len(t.interfaces) |-> <<t.interfaces[i]>>],
     types |-> [i \in 1..Len(t.types) |-> <<t.types[i]>>],
     values |-> t.values]

OldSig(s) ==
    [types |-> {OldTypeSig(s.types[n]) : n \in UserTypes(s)},
     directives |-> [i \in 1..Len(s.directives) |->
                       [name |-> <<s.directives[i].name>>,
                        args |-> ArgsSig(s.directives[i].args, <<>>)]],
     query |-> IF s.query = None THEN <<>> ELSE <<s.query>>,
     mutation |-> IF s.mutation = None THEN <<>> ELSE <<s.mutation>>,
     subscription |-> IF s.subscription = None THEN <<>> ELSE <<s.subscription>>]

NewTypeSig(new, fields, tm) ==
    [kind |-> new.kind,
     name |-> new.name,
     fields |-> [i \in 1..Len(fields) |->
                   [name |-> fields[i].name,
                    type |-> PrintType(fields[i].type, tm),
                    args |-> ArgsSig(fields[i].args, tm),
                    defaultValue |-> fields[i].defaultValue]],
     interfaces |-> [i \in 1..Len(new.interfaces) |-> PrintType(new.interfaces[i], tm)],
     types |-> [i \in 1..Len(new.types) |-> PrintType(new.types[i], tm)],
     values |-> new.values]

\* the structure of the schema built from config ns, type map tm and the
\* evaluated field thunks fm
NewSig(ns, tm, fm) ==
    [types |-> {NewTypeSig(tm[k], IF k \in DOMAIN fm THEN fm[k] ELSE <<>>, tm) : k \in Range(ns.types)},
     directives |-> [i \in 1..Len(ns.directives) |->
                       [name |-> ns.directives[i].name,
                        args |-> ArgsSig(ns.directives[i].args, tm)]],
     query |-> IF ns.query = Nil THEN <<>> ELSE PrintType(ns.query, tm),
     mutation |-> IF ns.mutation = Nil THEN <<>> ELSE PrintType(ns.mutation, tm),
     subscription |-> IF ns.subscription = Nil THEN <<>> ELSE PrintType(ns.subscription, tm)]

IdentityTransformer == combineTransformers(<<>>)

(***************************************************************************)
(* Claims on the schema transformer                                        *)
(***************************************************************************)
UnexpectedReference == terror.kind = "Error" /\ terror.what = "Unexpected reference to type"

\* C1: for every closed old schema, in whatever order its type map lists the
\* types, and for every transformer set, transformSchema followed by the
\* evaluation of every field thunk never raises 'Unexpected reference to type'.
C1_RecursiveReferencesResolve == Closed(schema) => ~UnexpectedReference

\* C2: with the empty transformer set, transformSchema yields a schema
\* structurally equal to the old one: once the run is over it has returned a
\* schema, and that schema has the structure of the old schema.
C2_IdentityTransformIsIdentity ==
    (transformers = IdentityTransformer /\ tpc \in {"done", "failed"})
        => (tpc = "done" /\ NewSig(newSchema, typeMap, fieldMaps) = OldSig(schema))

\* (used to cross-check C2) whenever the identity transform returns, the
\* returned schema has the structure of the old one
IdentityTransformEqualWhenDone ==
    (transformers = IdentityTransformer /\ tpc = "done")
        => NewSig(newSchema, typeMap, fieldMaps) = OldSig(schema)

\* (used to cross-check C1) the only unexpected reference is that of a union
\* enumerated before one of its member types
UnexpectedReferenceOnlyFromUnion ==
    UnexpectedReference =>
        /\ tpc = "failed"
        /\ \E u \in DOMAIN schema.types :
              /\ schema.types[u].kind = "Union"
              /\ terror.name \in Range(schema.types[u].types)
              /\ \E i, j \in 1..Len(schema.order) :
                    i < j /\ schema.order[i] = u /\ schema.order[j] = terror.name

\* the config names the fields of old type `type` carry once the
\* transformField / transformInputField callbacks have run
FieldConfigNames(type) ==
    LET cat == IF type.kind = "Input" THEN "InputField" ELSE "Field"
    IN [i \in 1..Len(type.fields) |->
           IF transformers[cat] = Nil THEN <<type.fields[i].name>>
           ELSE Invoke(transformers[cat], [name |-> <<type.fields[i].name>>], Nil).config.name]

Distinct(names) == \A i, j \in 1..Len(names) : i # j => names[i] # names[j]

\* the fields thunk of a type raised the duplicate-field error
DuplicateFieldError == tpc = "failed" /\ terror.what = "Duplicate field name"

DuplicatesRejectedApartFromInheritedNames ==
    /\ \A n \in DOMAIN fieldMaps :
          /\ Distinct(FieldConfigNames(schema.types[n]))
          /\ [i \in 1..Len(fieldMaps[n]) |-> fieldMaps[n][i].name] = FieldConfigNames(schema.types[n])
    /\ DuplicateFieldError =>
          /\ terror.name \notin DOMAIN fieldMaps
          /\ \/ ~Distinct(FieldConfigNames(schema.types[terror.name]))
             \/ \E i \in 1..Len(schema.types[terror.name].fields) :
                   LET name == FieldConfigNames(schema.types[terror.name])[i]
                   IN Len(name) = 1 /\ name[1] \in ObjectPrototypeKeys

\* (used to cross-check C15) a callback gave two fields of Query one name
\* and the thunk of Query raised the duplicate-field error
RealDuplicateRejected ==
    /\ DuplicateFieldError
    /\ terror.name = "Query"
    /\ ~Distinct(FieldConfigNames(schema.types["Query"]))

\* the old name of the object type a resolver result names or is
ResolvedName(result) == IF result.kind = "string" THEN result.value ELSE result.name

\* t is the type of the new schema registered under the old name n
IsNewTypeFor(t, n) == n \in DOMAIN typeMap /\ t = NewNamed(n)

\* C16: the type resolver installed on a cloned interface or union returns,
\* for every result of the old resolver, the new type registered under the
\* old name when the old resolver returns a type name, the mapped new type
\* when it returns a type object, and for an asynchronous result a result
\* that resolves to the new type got by the same two rules; it never returns
\* a type object of the old schema.
C16_TypeResolverReturnsNewTypes ==
    resolvedType # Nil =>
        LET old == resolvedType.old
            new == resolvedType.new
        IN IF old.kind = "Promise"
           THEN /\ new.kind = "Promise"
                /\ IsNewTypeFor(new.value, ResolvedName(old.value))
           ELSE IsNewTypeFor(new, ResolvedName(old))

\* the resolver of the renamed interface Node was called and the old resolver
\* returned a promise of the old type object Pet
C16_Witness ==
    /\ resolvedType # Nil
    /\ resolvedType.abstract = "Node"
    /\ typeMap["Node"].name = <<"A_", "Node">>
    /\ resolvedType.old = Promise(Named("Pet"))
    /\ resolvedType.new = Promise(NewNamed("Pet"))
    /\ typeMap["Pet"].name = <<"A_", "Pet">>

\* the interface types of the old schema
InterfacesOf(s) == {n \in DOMAIN s.types : s.types[n].kind = "Interface"}

\* the type processType is about to be called with, None after the loop
TypeAtHand ==
    IF tpc = "process" /\ idx <= Len(orderedTypes(schema)) THEN orderedTypes(schema)[idx] ELSE None

\* the position of type n in the type map of the old schema
PositionOf(n) == CHOOSE i \in 1..Len(schema.order) : schema.order[i] = n

\* C23: in Transformer.transform every interface type of the old schema is
\* cloned and entered in the type map before any non-interface type is cloned,
\* so that when an object type's interface list is mapped every interface it
\* names is already in the type map.
C23_InterfacesClonedFirst ==
    tpc # "idle" =>
        /\ \A i, j \in 1..Len(typeOrder) :
               (i < j /\ typeOrder[j] \in InterfacesOf(schema)) => typeOrder[i] \in InterfacesOf(schema)
        /\ (TypeAtHand # None /\ TypeAtHand \notin InterfacesOf(schema)) =>
               InterfacesOf(schema) \subseteq DOMAIN typeMap
        /\ (DOMAIN typeMap \ InterfacesOf(schema) # {}) => InterfacesOf(schema) \subseteq DOMAIN typeMap
        /\ (TypeAtHand # None /\ schema.types[TypeAtHand].kind = "Object") =>
               Range(schema.types[TypeAtHand].interfaces) \subseteq DOMAIN typeMap

\* the object type Pet, which the old type map lists before the interface
\* Node it implements, is about to be cloned
C23_Witness ==
    /\ TypeAtHand = "Pet"
    /\ "Node" \in Range(schema.types["Pet"].interfaces)
    /\ PositionOf("Pet") < PositionOf("Node")
    /\ "Node" \in DOMAIN typeMap

(***************************************************************************)
(* combineTransformers as a function: an expression of combineTransformers *)
(* calls over users' transformers is evaluated, and the callback the       *)
(* result has for one category is invoked once.                            *)
(***************************************************************************)
MaxTransformers == 3

FIdle == fnCall = Nil /\ fnReturned = Nil

Leaf(t) == [op |-> "transformer", t |-> t, args |-> <<>>]
Combine(args) == [op |-> "combineTransformers", t |-> Nil, args |-> args]

RECURSIVE Eval(_)
\* the transformer set an expression denotes
Eval(expr) ==
    IF expr.op = "transformer" THEN expr.t
    ELSE combineTransformers([i \in 1..Len(expr.args) |-> Eval(expr.args[i])])

\* combineTransformers(t1, ..., tn)
Flat(ts) == Combine([i \in 1..Len(ts) |-> Leaf(ts[i])])

\* the empty transformer set {}
EmptyTransformer == SchemaTransformer("none", "prefix", {})

\* the ways the calls over t1..tn are grouped: combine(t1..tn),
\* combine(combine(t1..tk), tk+1..tn), combine(t1..tk, combine(tk+1..tn))
Groupings(ts) ==
    {Flat(ts)}
        \cup {Combine(<<Flat(SubSeq(ts, 1, k))>> \o [i \in 1..(Len(ts) - k) |-> Leaf(ts[k + i])]) :
                 k \in 2..(Len(ts) - 1)}
        \cup {Combine([i \in 1..k |-> Leaf(ts[i])] \o <<Flat(SubSeq(ts, k + 1, Len(ts)))>>) :
                 k \in 1..(Len(ts) - 2)}

\* the users' transformers: the i-th of a call has the tag CallbackTags[i]
CallbackTags == <<"a", "b", "c", "d">>
CallbackOps == {"prefix", "set", "throw"}
CallbackCats == {{}, {"Field"}}

UserTransformers(n) ==
    {[i \in 1..n |-> SchemaTransformer(CallbackTags[i], v[i][1], v[i][2])] :
        v \in [1..n -> CallbackOps \X CallbackCats]}

CombineExprs ==
    UNION {Groupings(ts) \cup {Combine(<<Flat(ts), Leaf(EmptyTransformer)>>)}
               \cup (IF Len(ts) = 1 THEN {Combine(<<Leaf(ts[1]), Leaf(EmptyTransformer)>>), Leaf(ts[1])}
                     ELSE {}) :
           ts \in UNION {UserTransformers(n) : n \in 0..MaxTransformers}}

CombineInit ==
    /\ fnCall \in {[fn |-> "combineTransformers", expr |-> e, cat |-> c,
                  config |-> [name |-> <<"f">>], context |-> x] :
                    e \in CombineExprs, c \in {"Field", "Scalar"},
                    x \in {TransformationContext, FieldContext("Pet", NewNamed("Pet"))}}
    /\ fnReturned = Nil

\* what invoking the callback of category cat of transformer set trs does
InvokeCallback(trs, cat, config, context) ==
    IF trs[cat] = Nil
    THEN [defined |-> FALSE, config |-> config, calls |-> <<>>, threw |-> FALSE]
    ELSE [defined |-> TRUE] @@ Invoke(trs[cat], config, context)

ResultOf(expr) == InvokeCallback(Eval(expr), fnCall.cat, fnCall.config, fnCall.context)

\* the expression is evaluated and the callback of the category is invoked
CombineAndInvoke ==
    /\ fnCall # Nil
    /\ fnCall.fn = "combineTransformers"
    /\ fnReturned = Nil
    /\ fnReturned' = ResultOf(fnCall.expr)
    /\ UNCHANGED fnCall
    /\ UNCHANGED notF

CombineNext == CombineAndInvoke

RECURSIVE LeavesOf(_)
\* the users' transformers of an expression, left to right
LeavesOf(expr) ==
    IF expr.op = "transformer" THEN <<expr.t>>
    ELSE LET RECURSIVE Cat(_)
             Cat(i) == IF i > Len(expr.args) THEN <<>>
                       ELSE LeavesOf(expr.args[i]) \o Cat(i + 1)
         IN Cat(1)

\* the callbacks t1..tn define for the category of the call, in argument order
DefinedCallbacks(ts) == FilterDefined([i \in 1..Len(ts) |-> ts[i][fnCall.cat]])

RECURSIVE NamesSeen(_, _)
\* the config names the callbacks fns find one after the other, the first
\* finding `name`, each later one what the callback before it left
NamesSeen(fns, name) ==
    IF fns = <<>> THEN <<>>
    ELSE <<name>> \o NamesSeen(Tail(fns), Mutate(Head(fns), name))

\* one invocation of the combined callback called each callback of fns once,
\* in order, with the context of the invocation and the config as the
\* callbacks before it left it
InvokedEachOnceInOrder(fns) ==
    /\ fnReturned.defined
    /\ Len(fnReturned.calls) = Len(fns)
    /\ \A k \in 1..Len(fns) :
          /\ fnReturned.calls[k].tag = fns[k].tag
          /\ fnReturned.calls[k].context = fnCall.context
          /\ fnReturned.calls[k].saw = NamesSeen(fns, fnCall.config.name)[k]

\* C13: for combineTransformers(t1, ..., tn) and each category, one
\* invocation of the combined callback invokes the defined callbacks of
\* t1..tn exactly once each, in argument order, all on the same config and
\* context, each observing the mutations of the callbacks to its left; a
\* category for which no ti defines a callback has no combined callback.
C13_CombinedCallbackRunsEachInOrder ==
    (fnReturned # Nil /\ fnCall.expr \in {Flat(LeavesOf(fnCall.expr))}) =>
        LET fns == DefinedCallbacks(LeavesOf(fnCall.expr))
        IN IF fns = <<>> THEN ~fnReturned.defined ELSE InvokedEachOnceInOrder(fns)

\* (used to cross-check C13) the claim holds for an invocation in which no
\* callback throws, and an invocation that throws has called the callbacks
\* up to the first one that throws and no other
CombinedCallbackRunsUntilThrow ==
    (fnReturned # Nil /\ fnCall.expr \in {Flat(LeavesOf(fnCall.expr))}) =>
        LET fns == DefinedCallbacks(LeavesOf(fnCall.expr))
            throwing == {k \in 1..Len(fns) : fns[k].op = "throw"}
            first == CHOOSE k \in throwing : \A j \in throwing : k <= j
        IN IF fns = <<>> THEN ~fnReturned.defined
           ELSE IF throwing = {} THEN ~fnReturned.threw /\ InvokedEachOnceInOrder(fns)
           ELSE fnReturned.threw /\ InvokedEachOnceInOrder(SubSeq(fns, 1, first))

\* C14: combineTransformers is associative and has the empty transformer set
\* as right identity: however the calls over a, b, c are grouped, invoking
\* the callback of a category invokes the same callbacks in the same order
\* with the same resulting config, and combine(a, {}) invokes exactly the
\* callbacks of a.
C14_CombineAssociativeWithRightIdentity ==
    fnReturned # Nil =>
        /\ \A other \in Groupings(LeavesOf(fnCall.expr)) :
              fnCall.expr \in Groupings(LeavesOf(fnCall.expr)) => ResultOf(other) = fnReturned
        /\ (/\ fnCall.expr.op = "combineTransformers"
            /\ Len(fnCall.expr.args) = 2
            /\ fnCall.expr.args[2] = Leaf(EmptyTransformer))
              => ResultOf(fnCall.expr.args[1]) = fnReturned

\* combine(combine(a, b), c) was invoked for a category all three define:
\* a prefixed the name, b replaced it, c prefixed what b left
C14_Witness ==
    /\ fnReturned # Nil
    /\ Len(fnCall.expr.args) = 2
    /\ fnCall.expr.args[1].op = "combineTransformers"
    /\ Len(LeavesOf(fnCall.expr)) = 3
    /\ Len(fnReturned.calls) = 3
    /\ fnReturned.config.name = <<"c", "b">>
    /\ fnReturned.calls[3].saw = <<"b">>
    /\ fnReturned = ResultOf(Combine(<<Leaf(LeavesOf(fnCall.expr)[1]),
                                       Flat(SubSeq(LeavesOf(fnCall.expr), 2, 3))>>))

\* combine(a, {}) was invoked for a category a defines
RightIdentityWitness ==
    /\ fnReturned # Nil
    /\ fnCall.expr.op = "combineTransformers"
    /\ Len(fnCall.expr.args) = 2
    /\ fnCall.expr.args[1].op = "transformer"
    /\ fnCall.expr.args[2] = Leaf(EmptyTransformer)
    /\ Len(fnReturned.calls) = 1

MaxWrappers == 2

RECURSIVE Wrappings(_, _)
\* type t inside at most d list / non-null wrappers
Wrappings(t, d) ==
    IF d = 0 THEN {t}
    ELSE LET inner == Wrappings(t, d - 1)
         IN inner \cup {ListOf(w) : w \in inner} \cup {NonNullOf(w) : w \in inner}

\* the types transform() passes through: introspection types, built-in scalars
PassedThrough == IntrospectionNames \cup NativeScalars

\* C12: after any transform, the type map holds no entry for a type whose
\* name begins with '__' or that is a built-in scalar, no transformer callback
\* was invoked for such a type, and mapType applied to a built-in scalar
\* inside any nesting of list / non-null wrappers returns the same wrappers
\* around the original scalar object.
C12_NativeTypesPassThrough ==
    /\ DOMAIN typeMap \cap PassedThrough = {}
    /\ \A i \in 1..Len(invoked) : invoked[i].on \notin PassedThrough
    /\ \A n \in NativeScalars :
          \A w \in Wrappings(Named(n), MaxWrappers) : mapType(w, typeMap) = w

\* a schema with the built-in String, the introspection type __Type and the
\* custom scalar Date has been transformed by the type renamer and the field
\* tagger: Date was renamed, Query.hello is still of the original String
C12_Witness ==
    /\ tpc = "done"
    /\ transformers = combineTransformers(<<TypeRenamer, FieldTagger>>)
    /\ {"String", "__Type", "Date"} \subseteq DOMAIN schema.types
    /\ typeMap["Date"].name = <<"A_", "Date">>
    /\ \E i \in 1..Len(invoked) : invoked[i] = [cat |-> "Scalar", on |-> "Date"]
    /\ fieldMaps["Query"][1].name = <<"x_", "hello">>
    /\ fieldMaps["Query"][1].type = Named("String")

(***************************************************************************)
(* Request ASTs.  Every node is a record of the same shape; a field with   *)
(* no selection set and a fragment with no type condition hold <<>>.       *)
(***************************************************************************)
Node(k, n, a, tc, sels) ==
    [kind |-> k, name |-> n, alias |-> a, typeCondition |-> tc, selections |-> sels]

FieldNode(n, a, sels) == Node("Field", n, a, <<>>, sels)
FragmentSpread(n) == Node("FragmentSpread", n, None, <<>>, <<>>)
InlineFragment(tc, sels) == Node("InlineFragment", None, None, tc, sels)
FragmentDefinition(n, tc, sels) == Node("FragmentDefinition", n, None, tc, sels)

\* the node fetchTypenameIfFragmentsPresent pushes (lines 68-74)
TypenameField == FieldNode("__typename", None, <<>>)

(***************************************************************************)
(* Endpoints and createSchema                                              *)
(***************************************************************************)
NumEndpoints == 2

PrefixNames == <<"A_", "B_", "C_", "D_">>

\* config.endpoints
Endpoints ==
    [e \in 1..NumEndpoints |-> [name |-> e, url |-> <<"http", e>>, prefix |-> PrefixNames[e]]]

\* renaming.getReverseTypeRenamer: strips the endpoint's prefix from a name
ReverseTypeRenamer(prefix, name) ==
    IF name # <<>> /\ Head(name) = prefix THEN Tail(name) ELSE name

OperationKinds == {"query", "mutation", "subscription"}

\* a wiring in which every endpoint's resolvers share the base configuration
\* of the first endpoint
createSchemaSharedConfig(endpoints) ==
    [e \in DOMAIN endpoints |->
        LET resolver(operation) ==
                [url |-> endpoints[1].url,
                 typeRenamer |-> [kind |-> "ReverseRenamer", prefix |-> endpoints[1].prefix],
                 operation |-> operation]
        IN [namespace |-> endpoints[e].name,
            queryResolver |-> resolver("query"),
            mutationResolver |-> resolver("mutation"),
            subscriptionResolver |-> resolver("subscription")]]

\* createSchema, lines 31-52: for each endpoint, the resolvers created by
\* createResolver(operation) over that endpoint's baseResolverConfig
createSchema(endpoints) ==
    [e \in DOMAIN endpoints |->
        LET baseResolverConfig ==
                [url |-> endpoints[e].url,
                 typeRenamer |-> [kind |-> "ReverseRenamer", prefix |-> endpoints[e].prefix]]
            resolver(operation) ==
                [url |-> baseResolverConfig.url,
                 typeRenamer |-> baseResolverConfig.typeRenamer,
                 operation |-> operation]
        IN [namespace |-> endpoints[e].name,
            queryResolver |-> resolver("query"),
            mutationResolver |-> resolver("mutation"),
            subscriptionResolver |-> resolver("subscription")]]

\* schema-merger.mergeSchemas: a root field of the merged schema carries the
\* resolver its namespace supplied for the root type it is a field of
MergedRootResolver(table, e, kind) ==
    CASE kind = "query" -> table[e].queryResolver
      [] kind = "mutation" -> table[e].mutationResolver
      [] kind = "subscription" -> table[e].subscriptionResolver

(***************************************************************************)
(* proxy-resolver.ts                                                       *)
(***************************************************************************)
RECURSIVE renameTypes(_, _)
\* renameTypes: visit(root) rewriting the type condition of every fragment
\* definition and inline fragment in place
renameTypes(node, renamer) ==
    LET sels == [i \in 1..Len(node.selections) |-> renameTypes(node.selections[i], renamer)]
    IN CASE node.kind = "FragmentDefinition" ->
              [node EXCEPT !.typeCondition = ReverseTypeRenamer(renamer.prefix, @),
                           !.selections = sels]
         [] node.kind = "InlineFragment" ->
              [node EXCEPT !.typeCondition =
                               IF @ # <<>> THEN ReverseTypeRenamer(renamer.prefix, @) ELSE @,
                           !.selections = sels]
         [] OTHER -> [node EXCEPT !.selections = sels]

IsFragmentRef(sel) == sel.kind = "FragmentSpread" \/ sel.kind = "InlineFragment"

\* line 61
requiresTypename(sels) == \E i \in 1..Len(sels) : IsFragmentRef(sels[i])
\* line 62
requestsTypename(sels) ==
    \E i \in 1..Len(sels) : sels[i].kind = "Field" /\ sels[i].name = "__typename"
\* line 63
isTypenameAilased(sels) ==
    \E i \in 1..Len(sels) :
        /\ sels[i].kind = "Field"
        /\ sels[i].name # "__typename"
        /\ sels[i].alias # None
        /\ sels[i].alias = "__typename"

RECURSIVE visitSelectionSet(_)
RECURSIVE visitChildren(_, _)
\* the SelectionSet visitor of fetchTypenameIfFragmentsPresent on one selection
\* set and then, depth first, on the selection sets below it.  The result is
\* the selection set as mutated so far and whether the visitor threw.
visitSelectionSet(sels) ==
    IF isTypenameAilased(sels) THEN [selections |-> sels, threw |-> TRUE]
    ELSE visitChildren(IF requiresTypename(sels) /\ ~requestsTypename(sels)
                       THEN Append(sels, TypenameField) ELSE sels,
                       1)

\* the traversal of the selections i.. of a selection set
visitChildren(sels, i) ==
    IF i > Len(sels) THEN [selections |-> sels, threw |-> FALSE]
    ELSE IF sels[i].selections = <<>> THEN visitChildren(sels, i + 1)
    ELSE LET r == visitSelectionSet(sels[i].selections)
             next == [sels EXCEPT ![i].selections = r.selections]
         IN IF r.threw THEN [selections |-> next, threw |-> TRUE]
            ELSE visitChildren(next, i + 1)

\* fetchTypenameIfFragmentsPresent(root) for a field node
fetchTypenameIfFragmentsPresent(root) ==
    IF root.selections = <<>> THEN [node |-> root, threw |-> FALSE]
    ELSE LET r == visitSelectionSet(root.selections)
         IN [node |-> [root EXCEPT !.selections = r.selections], threw |-> r.threw]

RECURSIVE fetchTypenameAll(_, _)
\* info.fieldNodes.forEach(node => fetchTypenameIfFragmentsPresent(node)), from
\* node i on: the nodes as mutated, and whether a visit threw
fetchTypenameAll(nodes, i) ==
    IF i > Len(nodes) THEN [nodes |-> nodes, threw |-> FALSE]
    ELSE LET r == fetchTypenameIfFragmentsPresent(nodes[i])
             next == [nodes EXCEPT ![i] = r.node]
         IN IF r.threw THEN [nodes |-> next, threw |-> TRUE]
            ELSE fetchTypenameAll(next, i + 1)

RECURSIVE SpreadsIn(_)
\* the names of the fragment spreads below a node, in visiting order
SpreadsIn(node) ==
    IF node.kind = "FragmentSpread" THEN <<node.name>>
    ELSE LET RECURSIVE Cat(_)
             Cat(i) == IF i > Len(node.selections) THEN <<>>
                       ELSE SpreadsIn(node.selections[i]) \o Cat(i + 1)
         IN Cat(1)

RECURSIVE AddAll(_, _)
\* a Set's insertion order: names appended to acc, each once
AddAll(acc, names) ==
    IF names = <<>> THEN acc
    ELSE AddAll(IF Head(names) \in Range(acc) THEN acc ELSE Append(acc, Head(names)), Tail(names))

RECURSIVE collectUsedFragmentNamesFrom(_, _, _)
collectUsedFragmentNamesFrom(roots, i, acc) ==
    IF i > Len(roots) THEN acc
    ELSE collectUsedFragmentNamesFrom(roots, i + 1, AddAll(acc, SpreadsIn(roots[i])))

\* collectUsedFragmentNames
collectUsedFragmentNames(roots) == collectUsedFragmentNamesFrom(roots, 1, <<>>)

\* pick
pick(object, keys) == [i \in 1..Len(keys) |-> object[keys[i]]]

\* collectUsedFragments
collectUsedFragments(roots, fragments) == pick(fragments, collectUsedFragmentNames(roots))

\* graphql's print: the text of a node is modelled by the node as it is when
\* it is printed
print(node) == node

RECURSIVE ConcatSelections(_, _)
\* lines 25-27
ConcatSelections(nodes, i) ==
    IF i > Len(nodes) THEN <<>>
    ELSE nodes[i].selections \o ConcatSelections(nodes, i + 1)

\* line 30: the query text
QueryStr(fragments, operation, selections) ==
    [fragmentsStr |-> [i \in 1..Len(fragments) |-> print(fragments[i])],
     operation |-> operation,
     selectionStr |-> [i \in 1..Len(selections) |-> print(selections[i])]]

\* client.query(url, queryStr): the call as the client receives it
query(url, queryStr) == [fn |-> "query", url |-> url, query |-> queryStr]

\* the resolver createResolver(config) returns, run on
\* (source, args, context, info) with info.fieldNodes = nodes and
\* info.fragments = fragments, up to the upstream call: the request's AST as
\* the run leaves it, whether it threw, and the call made
proxyResolve(config, context, nodes, fragments) ==
    LET names == collectUsedFragmentNames(nodes)
        renamed(n) == IF config.typeRenamer # Nil THEN renameTypes(n, config.typeRenamer) ELSE n
        nodes1 == [i \in 1..Len(nodes) |-> renamed(nodes[i])]
        fragments1 == [f \in DOMAIN fragments |->
                          IF f \in Range(names) THEN renamed(fragments[f]) ELSE fragments[f]]
        visited == fetchTypenameAll(nodes1, 1)
    IN [nodes |-> visited.nodes,
        fragments |-> fragments1,
        threw |-> visited.threw,
        call |-> query(config.url,
                       QueryStr(pick(fragments1, names), config.operation,
                                ConcatSelections(visited.nodes, 1)))]

(***************************************************************************)
(* The requests the proxy resolver is run on                               *)
(***************************************************************************)
MaxResolves == 2

Roots == {1, 2}
FragmentNames == {"F", "G"}

\* type names of the merged schema: endpoint 1's types Animal and A_Cat
TypeAnimal == <<"A_", "Animal">>
TypeACat == <<"A_", "A_", "Cat">>

NameField == FieldNode("name", None, <<>>)
AliasedTypename == FieldNode("__typename", "kind", <<>>)
AliasedToTypename == FieldNode("name", "__typename", <<>>)

PlainFields == {NameField, TypenameField, AliasedTypename, AliasedToTypename}

FragmentRefs(names) ==
    {FragmentSpread(n) : n \in names} \cup {InlineFragment(TypeAnimal, <<NameField>>)}

\* selection sets of one or two selections
SelectionSets(names) ==
    {<<f>> : f \in PlainFields}
        \cup {<<r>> : r \in FragmentRefs(names)}
        \cup {<<f, r>> : f \in PlainFields, r \in FragmentRefs(names)}

\* a selection set, as it is or one level down
Nestings(sels) ==
    {sels, <<FieldNode("pet", None, sels)>>, <<NameField, InlineFragment(<<>>, sels)>>}

MakeDoc(selsA, selsB, tcF, bodyF, bodyG) ==
    [fieldNodes |-> [r \in Roots |->
                       IF r = 1 THEN <<FieldNode("a", None, selsA)>>
                       ELSE <<FieldNode("b", None, selsB)>>],
     fragments |-> [f \in FragmentNames |->
                       IF f = "F" THEN FragmentDefinition("F", tcF, bodyF)
                       ELSE FragmentDefinition("G", TypeACat, bodyG)]]

Docs ==
    {MakeDoc(selsA, selsB, tcF, bodyF, bodyG) :
        selsA \in UNION {Nestings(x) : x \in SelectionSets(FragmentNames)},
        selsB \in {<<NameField>>, <<FragmentSpread("F")>>},
        tcF \in {TypeAnimal, TypeACat},
        bodyF \in SelectionSets({"G"}),
        bodyG \in {<<NameField>>, <<NameField, InlineFragment(TypeACat, <<NameField>>)>>}}

\* requests without fragments, whose root fields may be of any endpoint
SmallDocs ==
    {MakeDoc(selsA, <<NameField>>, TypeAnimal, <<NameField>>, <<NameField>>) :
        selsA \in {<<NameField>>, <<TypenameField, NameField>>}}

Contexts == {"ctx1", "ctx2"}

(***************************************************************************)
(* The proxy resolver as a state machine                                   *)
(***************************************************************************)
PIdle ==
    /\ resolverTable = <<>>
    /\ doc = Nil
    /\ origDoc = Nil
    /\ rootEndpoint = <<>>
    /\ opKind = None
    /\ reqContext = None
    /\ resolved = <<>>
    /\ sent = <<>>
    /\ outcomes = <<>>

\* a woven schema and a request on it
PInitOver(docs, routes, kinds, contexts) ==
    /\ resolverTable = createSchema(Endpoints)
    /\ doc \in docs
    /\ origDoc = doc
    /\ rootEndpoint \in routes
    /\ opKind \in kinds
    /\ reqContext \in contexts
    /\ resolved = [r \in Roots |-> 0]
    /\ sent = <<>>
    /\ outcomes = <<>>

\* requests with fragments on the types of endpoint 1, both root fields being
\* fields of endpoint 1
PInit == PInitOver(Docs, {[r \in Roots |-> 1]}, {"query"}, {"ctx1"})

RoutingInit ==
    PInitOver(SmallDocs, [Roots -> 1..NumEndpoints], OperationKinds, Contexts)

\* the executor resolves root field r: the resolver createSchema wired to it runs
Resolve(r) ==
    /\ resolved[r] < MaxResolves
    /\ LET config == MergedRootResolver(resolverTable, rootEndpoint[r], opKind)
           run == proxyResolve(config, reqContext, doc.fieldNodes[r], doc.fragments)
           by == [root |-> r, context |-> reqContext]
       IN /\ doc' = [fieldNodes |-> [doc.fieldNodes EXCEPT ![r] = run.nodes],
                     fragments |-> run.fragments]
          /\ IF run.threw
             THEN /\ outcomes' = Append(outcomes, [by |-> by, result |-> "ReservedFieldAlias"])
                  /\ sent' = sent
             ELSE /\ outcomes' = Append(outcomes, [by |-> by, result |-> "sent"])
                  /\ sent' = Append(sent, [by |-> by, call |-> run.call])
    /\ resolved' = [resolved EXCEPT ![r] = @ + 1]
    /\ UNCHANGED <<resolverTable, origDoc, rootEndpoint, opKind, reqContext>>
    /\ UNCHANGED notP

PNext == \E r \in Roots : Resolve(r)

(***************************************************************************)
(* Claims on the proxy resolver                                            *)
(***************************************************************************)
RECURSIVE TypenameWhereFragments(_)
\* every selection set, from sels down, that directly holds a fragment spread
\* or an inline fragment also directly holds an unaliased __typename field
TypenameWhereFragments(sels) ==
    /\ requiresTypename(sels) =>
          \E i \in 1..Len(sels) :
              sels[i].kind = "Field" /\ sels[i].name = "__typename" /\ sels[i].alias = None
    /\ \A i \in 1..Len(sels) :
          sels[i].selections # <<>> => TypenameWhereFragments(sels[i].selections)

\* C3: in every query sent upstream, every selection set of the resolved
\* field's selections and of the fragment definitions sent with them that
\* directly contains a fragment spread or an inline fragment also directly
\* contains an unaliased __typename field.
C3_TypenameAtEveryFragmentLevel ==
    \A i \in 1..Len(sent) :
        LET q == sent[i].call.query
        IN /\ TypenameWhereFragments(q.selectionStr)
           /\ \A j \in 1..Len(q.fragmentsStr) :
                 TypenameWhereFragments(q.fragmentsStr[j].selections)

RECURSIVE SpreadClosure(_, _)
\* the fragment names reachable from the set `names` through the spreads of
\* the fragment definitions `fragments`
SpreadClosure(names, fragments) ==
    LET more == names \cup UNION {Range(SpreadsIn(fragments[n])) : n \in names}
    IN IF more = names THEN names ELSE SpreadClosure(more, fragments)

\* the fragments root field r uses, directly or through other fragments
UsedFragments(r) ==
    SpreadClosure(UNION {Range(SpreadsIn(origDoc.fieldNodes[r][i])) :
                            i \in 1..Len(origDoc.fieldNodes[r])},
                  origDoc.fragments)

\* C4: the fragment definitions included in an upstream query are exactly the
\* transitive closure of the fragment spreads of the resolved field's nodes.
C4_FragmentsAreTransitiveClosure ==
    \A i \in 1..Len(sent) :
        LET q == sent[i].call.query
        IN {q.fragmentsStr[j].name : j \in 1..Len(q.fragmentsStr)} = UsedFragments(sent[i].by.root)

RECURSIVE TypeConditionsIn(_)
\* the type conditions of a node and of the nodes below it, in visiting order
TypeConditionsIn(node) ==
    LET RECURSIVE Cat(_)
        Cat(i) == IF i > Len(node.selections) THEN <<>>
                  ELSE TypeConditionsIn(node.selections[i]) \o Cat(i + 1)
    IN (IF node.typeCondition # <<>> THEN <<node.typeCondition>> ELSE <<>>) \o Cat(1)

RECURSIVE TypeConditionsOf(_, _)
TypeConditionsOf(nodes, i) ==
    IF i > Len(nodes) THEN <<>> ELSE TypeConditionsIn(nodes[i]) \o TypeConditionsOf(nodes, i + 1)

\* the reverse renamer of the endpoint of root field r, applied once to name
RenamedOnce(r, name) == ReverseTypeRenamer(Endpoints[rootEndpoint[r]].prefix, name)

\* C5: for any sequence of resolver invocations of one request, every type
\* condition of a fragment definition or inline fragment in each upstream
\* query is the client-written name with the reverse renamer applied exactly
\* once.
C5_TypeConditionsRenamedOnce ==
    \A i \in 1..Len(sent) :
        LET q == sent[i].call.query
            r == sent[i].by.root
            written == TypeConditionsOf(origDoc.fieldNodes[r], 1)
        IN /\ TypeConditionsOf(q.selectionStr, 1) =
                 [k \in 1..Len(written) |-> RenamedOnce(r, written[k])]
           /\ \A j \in 1..Len(q.fragmentsStr) :
                 LET f == q.fragmentsStr[j]
                     w == TypeConditionsIn(origDoc.fragments[f.name])
                 IN TypeConditionsIn(f) = [k \in 1..Len(w) |-> RenamedOnce(r, w[k])]

\* C9: the resolvers createSchema creates for an endpoint dispatch only to
\* that endpoint's URL and with the operation kind of the root type: resolving
\* a root field that originated in endpoint A never calls another endpoint.
C9_RootFieldRoutesToOwnEndpoint ==
    \A i \in 1..Len(sent) :
        /\ sent[i].call.url = Endpoints[rootEndpoint[sent[i].by.root]].url
        /\ sent[i].call.query.operation = opKind

\* root fields of two different endpoints have both been resolved and sent
C9_Witness ==
    \E i, j \in 1..Len(sent) :
        /\ rootEndpoint[sent[i].by.root] # rootEndpoint[sent[j].by.root]
        /\ sent[i].call.url # sent[j].call.url
        /\ opKind # "query"

Undefined == "undefined"

\* the context value an upstream call was handed
ReceivedContext(call) == IF "context" \in DOMAIN call THEN call.context ELSE Undefined

\* C10: every sub-query dispatched at request time receives the per-request
\* context value the resolver was invoked with, unchanged.
C10_ContextThreadedUnchanged ==
    \A i \in 1..Len(sent) : ReceivedContext(sent[i].call) = sent[i].by.context

RECURSIVE AliasesToTypename(_)
\* some selection set, from sels down, holds a field other than __typename
\* whose alias is __typename
AliasesToTypename(sels) ==
    \/ isTypenameAilased(sels)
    \/ \E i \in 1..Len(sels) :
          sels[i].selections # <<>> /\ AliasesToTypename(sels[i].selections)

\* the nodes of root field r of the request alias a field to __typename
ReservedAliasInFieldNodes(r) ==
    \E i \in 1..Len(origDoc.fieldNodes[r]) :
        AliasesToTypename(origDoc.fieldNodes[r][i].selections)

\* a fragment definition the nodes of root field r spread aliases a field to
\* __typename
ReservedAliasInUsedFragments(r) ==
    \E i \in 1..Len(origDoc.fieldNodes[r]) :
        \E f \in Range(SpreadsIn(origDoc.fieldNodes[r][i])) :
            AliasesToTypename(origDoc.fragments[f].selections)

\* C17: if a selection set reachable from the resolved field's nodes, the
\* selection sets of the fragment definitions they use included, holds a field
\* other than __typename whose alias is __typename, the invocation of the
\* proxy resolver fails with the reserved-alias error and issues no upstream
\* query.
C17_ReservedAliasRejectedBeforeQuery ==
    /\ \A k \in 1..Len(outcomes) :
          LET r == outcomes[k].by.root
          IN (ReservedAliasInFieldNodes(r) \/ ReservedAliasInUsedFragments(r))
                => outcomes[k].result = "ReservedFieldAlias"
    /\ Len(sent) = Cardinality({k \in 1..Len(outcomes) : outcomes[k].result = "sent"})

\* (used to cross-check C17) a reserved alias in the selection sets of the
\* field's own nodes is rejected, and a rejected invocation sends no query
ReservedAliasInFieldNodesRejected ==
    /\ \A k \in 1..Len(outcomes) :
          ReservedAliasInFieldNodes(outcomes[k].by.root)
              => outcomes[k].result = "ReservedFieldAlias"
    /\ Len(sent) = Cardinality({k \in 1..Len(outcomes) : outcomes[k].result = "sent"})

(***************************************************************************)
(* JavaScript values of upstream results                                   *)
(***************************************************************************)
Str(s) == [kind |-> "string", value |-> s]
Null == [kind |-> "null"]
UndefinedValue == [kind |-> "undefined"]
FieldErrorValue(msg) == [kind |-> "FieldErrorValue", message |-> msg]
Obj(fields) == [kind |-> "object", fields |-> fields]
Arr(items) == [kind |-> "array", items |-> items]

Error(msg) == [kind |-> "Error", message |-> msg]
TypeError == [kind |-> "TypeError", message |-> "TypeError"]
WeavingError(msg) == [kind |-> "WeavingError", message |-> msg]

\* how a call ends: with a value, or with an exception
Returned(v) == [kind |-> "return", value |-> v]
Thrown(e) == [kind |-> "throw", error |-> e]

isArray(v) == v.kind = "array"

\* graphql's execution completes null and undefined alike to null
isNullish(v) == v.kind = "null" \/ v.kind = "undefined"

\* item[key]: the ending of a property read
GetProperty(v, key) ==
    CASE v.kind = "object" ->
            Returned(IF key \in DOMAIN v.fields THEN v.fields[key] ELSE UndefinedValue)
      [] isNullish(v) -> Thrown(TypeError)
      [] OTHER -> Returned(UndefinedValue)

(***************************************************************************)
(* language-utils, schema-utils, field-as-query                            *)
(***************************************************************************)
Suffixes == <<"", "2", "3", "4">>

\* (a mutation of FirstUnused) the base name is taken whether used or not
BaseName(base, used) == base

\* the first of base, base2, base3, ... that is not in used
FirstUnused(base, used) ==
    LET k == CHOOSE k \in 1..Len(Suffixes) :
                 /\ (base \o Suffixes[k]) \notin used
                 /\ \A j \in 1..(k - 1) : (base \o Suffixes[j]) \in used
    IN base \o Suffixes[k]

\* addVariableDefinitionSafely: appends a definition under an unused name
addVariableDefinitionSafely(variableDefinitions, varNameBase, varType) ==
    LET used == {variableDefinitions[i].name : i \in 1..Len(variableDefinitions)}
        name == FirstUnused(varNameBase, used)
    IN [variableDefinitions |-> Append(variableDefinitions, [name |-> name, type |-> varType]),
        name |-> name]

\* a field selection; alias is None when the field is not aliased
Selection(alias, name) == [alias |-> alias, name |-> name]

OutputKey(sel) == IF sel.alias # None THEN sel.alias ELSE sel.name

\* addFieldSelectionSafely: the output key of an unaliased selection of
\* fieldName if there is one, otherwise of a selection appended under an
\* alias no output key of the set collides with
addFieldSelectionSafely(selectionSet, fieldName) ==
    IF \E i \in 1..Len(selectionSet) :
           selectionSet[i].name = fieldName /\ selectionSet[i].alias = None
    THEN [alias |-> fieldName, selectionSet |-> selectionSet]
    ELSE LET keys == {OutputKey(selectionSet[i]) : i \in 1..Len(selectionSet)}
             alias == FirstUnused(fieldName, keys)
         IN [alias |-> alias,
             selectionSet |-> Append(selectionSet,
                 Selection(IF alias = fieldName THEN None ELSE alias, fieldName))]

\* getNonNullType
getNonNullType(type) == IF type.kind = "NonNull" THEN type ELSE NonNullOf(type)

\* getFieldAsQueryParts: the parts of the query underlying the resolve info
getFieldAsQueryParts(info) ==
    [fragments |-> info.fragments,
     selectionSet |-> info.selectionSet,
     variableDefinitions |-> info.variableDefinitions,
     variableValues |-> info.variableValues]

\* createNestedArgumentWithVariableNode: the argument along the dotted path
\* whose innermost value is the variable
createNestedArgumentWithVariableNode(argumentPath, varName) ==
    [kind |-> "Argument", path |-> argumentPath, variable |-> varName]

Last(s) == s[Len(s)]

\* {...variableValues, [varName]: value}
WithValue(variableValues, varName, value) ==
    [n \in DOMAIN variableValues \cup {varName} |->
        IF n = varName THEN value ELSE variableValues[n]]

(***************************************************************************)
(* link-helpers.ts: basicResolve and fetchLinkedObjects                    *)
(***************************************************************************)
\* parseLinkTargetPath, lines 25-36: the field path of a target that exists
parseLinkTargetPath(path) == [fieldPath |-> path]

\* basicResolve, lines 49-86: the execute() call it makes
basicResolveExecute(params) ==
    LET targetFieldPath == params.targetFieldPath
        outerFieldNames == SubSeq(targetFieldPath, 1, Len(targetFieldPath) - 1)
        innerFieldNode == [name |-> Last(targetFieldPath),
                           selectionSet |-> params.payloadSelectionSet,
                           arguments |-> params.args]
        document == [operation |-> "query",
                     variableDefinitions |-> params.variableDefinitions,
                     outerFieldNames |-> outerFieldNames,
                     innerFieldNode |-> innerFieldNode,
                     fragments |-> params.fragments]
    IN [fn |-> "execute", schema |-> params.schema, document |-> document,
        context |-> params.context, variableValues |-> params.variableValues]

RECURSIVE unwrap(_, _, _)
\* basicResolve, lines 91-114: targetFieldPath.reduce over the result data
unwrap(data, targetFieldPath, i) ==
    IF i > Len(targetFieldPath) THEN Returned(data)
    ELSE IF data.kind \notin {"object", "array", "FieldErrorValue"}
         THEN Thrown(TypeError)                  \* `in` on a value that is no object
    ELSE IF data.kind # "object" \/ targetFieldPath[i] \notin DOMAIN data.fields
         THEN Thrown(Error("Property missing in result"))
    ELSE LET result == data.fields[targetFieldPath[i]]
         IN IF result.kind = "FieldErrorValue"
            THEN Thrown(Error("Field reported error"))
            ELSE unwrap(result, targetFieldPath, i + 1)

\* basicResolve, lines 88-114: resultData is how
\* assertSuccessfulResult(moveErrorsToData(result, ...)) ended
basicResolveReturn(params, resultData) ==
    IF resultData.kind = "throw" THEN resultData
    ELSE unwrap(resultData.value, params.targetFieldPath, 1)

\* the params fetchSingular, fetchBatchOneToOne and fetchBatchWithKeyField
\* hand to basicResolve
ResolveParams(params, varType, value, payloadSelectionSet) ==
    LET parts == getFieldAsQueryParts(params.info)
        varNameBase == Last(params.linkConfig.argument)
        added == addVariableDefinitionSafely(parts.variableDefinitions, varNameBase, varType)
    IN [targetFieldPath |-> parseLinkTargetPath(params.linkConfig.field).fieldPath,
        schema |-> params.unlinkedSchema,
        context |-> params.context,
        variableDefinitions |-> added.variableDefinitions,
        variableValues |-> WithValue(parts.variableValues, added.name, value),
        fragments |-> parts.fragments,
        args |-> <<createNestedArgumentWithVariableNode(params.linkConfig.argument, added.name)>>,
        payloadSelectionSet |-> payloadSelectionSet,
        path |-> params.info.path,
        varName |-> added.name]

\* fetchSingular, lines 144-169
fetchSingular(params, key) ==
    [by |-> "fetchSingular", keyFieldAlias |-> None,
     resolve |-> ResolveParams(params, getNonNullType(params.keyType), key,
                               getFieldAsQueryParts(params.info).selectionSet)]

\* fetchBatchOneToOne, lines 178-203
fetchBatchOneToOne(params, keys) ==
    [by |-> "fetchBatchOneToOne", keyFieldAlias |-> None,
     resolve |-> ResolveParams(params, NonNullOf(ListOf(getNonNullType(params.keyType))),
                               Arr(keys), getFieldAsQueryParts(params.info).selectionSet)]

\* fetchBatchWithKeyField, lines 213-241
fetchBatchWithKeyField(params, keyOrKeys) ==
    LET added == addFieldSelectionSafely(getFieldAsQueryParts(params.info).selectionSet,
                                         params.linkConfig.keyField)
    IN [by |-> "fetchBatchWithKeyField", keyFieldAlias |-> added.alias,
        resolve |-> ResolveParams(params, NonNullOf(ListOf(getNonNullType(params.keyType))),
                                  Arr(keyOrKeys), added.selectionSet)]

\* checkObjectsAndKeysForErrorValues, lines 427-438: Nil, or what it throws
checkObjectsAndKeysForErrorValues(objects, keyFieldAlias) ==
    IF objects.kind = "FieldErrorValue" THEN Thrown(Error(objects.message))
    ELSE IF ~isArray(objects) THEN Thrown(TypeError)          \* objects.map
    ELSE IF \E i \in 1..Len(objects.items) :
                GetProperty(objects.items[i], keyFieldAlias).kind = "throw"
         THEN Thrown(TypeError)                               \* item[keyFieldAlias]
    ELSE IF \E i \in 1..Len(objects.items) :
                GetProperty(objects.items[i], keyFieldAlias).value.kind = "FieldErrorValue"
         THEN Thrown(Error("Errors retrieving key field"))
    ELSE Nil

\* Map.prototype.set on a map held as a sequence of <<key, value>> entries
MapSet(map, key, value) ==
    IF \E i \in 1..Len(map) : map[i][1] = key
    THEN [i \in 1..Len(map) |-> IF map[i][1] = key THEN <<key, value>> ELSE map[i]]
    ELSE Append(map, <<key, value>>)

RECURSIVE NewMapFrom(_, _, _)
NewMapFrom(entries, i, map) ==
    IF i > Len(entries) THEN map
    ELSE NewMapFrom(entries, i + 1, MapSet(map, entries[i][1], entries[i][2]))

\* new Map(entries)
NewMap(entries) == NewMapFrom(entries, 1, <<>>)

\* Map.prototype.get
MapGet(map, key) ==
    IF \E i \in 1..Len(map) : map[i][1] = key
    THEN map[CHOOSE i \in 1..Len(map) : map[i][1] = key][2]
    ELSE UndefinedValue

\* the upstream's items taken in the order the upstream returned them
keepUpstreamOrder(keyOrKeys, data, keyFieldAlias) ==
    Arr([i \in 1..Len(keyOrKeys) |->
            IF i <= Len(data.items) THEN data.items[i] ELSE UndefinedValue])

\* fetchBatchWithKeyField, lines 250-252: the lookup table from key to item,
\* and the keys mapped through it
reorderByKey(keyOrKeys, data, keyFieldAlias) ==
    LET map == NewMap([i \in 1..Len(data.items) |->
                          <<GetProperty(data.items[i], keyFieldAlias).value, data.items[i]>>])
    IN Arr([i \in 1..Len(keyOrKeys) |-> MapGet(map, keyOrKeys[i])])

\* fetchBatchWithKeyField, lines 243-252: what follows `await basicResolve`
fetchBatchWithKeyFieldReturn(keyOrKeys, keyFieldAlias, resolved_) ==
    IF resolved_.kind = "throw" THEN resolved_
    ELSE LET data == resolved_.value
             check == checkObjectsAndKeysForErrorValues(data, keyFieldAlias)
         IN IF check # Nil THEN check
            ELSE IF ~isArray(data) THEN Thrown(Error("expected to be an array because batchMode is true"))
            ELSE Returned(reorderByKey(keyOrKeys, data, keyFieldAlias))

\* every key fetched on its own, whatever the link's batchMode
fetchLinkedObjectsPerKey(params) ==
    [i \in 1..Len(params.keys) |-> fetchSingular(params, params.keys[i])]

\* fetchLinkedObjects, lines 255-262: the fetches it starts
fetchLinkedObjects(params) ==
    IF ~params.linkConfig.batchMode
    THEN [i \in 1..Len(params.keys) |-> fetchSingular(params, params.keys[i])]
    ELSE IF params.linkConfig.keyField # None
         THEN <<fetchBatchWithKeyField(params, params.keys)>>
         ELSE <<fetchBatchOneToOne(params, params.keys)>>

\* utils.intersect: the elements of list a that are in list b
intersect(a, b) == Arr(SelectSeq(a.items, LAMBDA x : x \in Range(b.items)))

\* (a mutation of mergeKeys) the link keys replace the user's key list
replaceKeys(existingKeys, keys) == Arr(keys)

\* existingKeys => existingKeys ? intersect(existingKeys, keys) : keys, line 289
mergeKeys(existingKeys, keys) ==
    IF isNullish(existingKeys) THEN Arr(keys) ELSE intersect(existingKeys, Arr(keys))

RECURSIVE modifyPropertyAtPath(_, _, _)
\* utils.modifyPropertyAtPath(obj, existingKeys => existingKeys ?
\* intersect(existingKeys, keys) : keys, path): a copy of obj in which the
\* property at path is what the function gives for its old value
modifyPropertyAtPath(obj, keys, path) ==
    IF path = <<>>
    THEN mergeKeys(obj, keys)
    ELSE LET fields == IF obj.kind = "object" THEN obj.fields ELSE <<>>
             old == IF Head(path) \in DOMAIN fields THEN fields[Head(path)] ELSE UndefinedValue
         IN Obj([k \in DOMAIN fields \cup {Head(path)} |->
                    IF k = Head(path) THEN modifyPropertyAtPath(old, keys, Tail(path))
                    ELSE fields[k]])

\* an argument whose value is an enum or int literal
LiteralArgument(name, value) == [kind |-> "Argument", path |-> <<name>>, literal |-> value]

\* ToBoolean of an array: an array is an object, so it is truthy whether it is
\* empty or not
ArrayToBoolean(items) == TRUE

\* fetchJoinedObjects, lines 284-287: `if (!keyFieldPath) throw ...` on the rest
\* of the split argument; Nil when nothing is thrown
checkKeyFieldPath(linkConfig) ==
    LET keyFieldPath == Tail(linkConfig.argument)
    IN IF ~ArrayToBoolean(keyFieldPath)
       THEN Thrown(WeavingError("argument on link field needs to be a path of the form argumentName.fieldPath"))
       ELSE Nil

\* fetchJoinedObjects, lines 278-375: up to the basicResolve call
fetchJoinedObjects(params) ==
    LET parts == getFieldAsQueryParts(params.info)
        filterArgumentName == Head(params.linkConfig.argument)
        keyFieldPath == Tail(params.linkConfig.argument)
        filterValue == modifyPropertyAtPath(params.additionalFilter, params.keys, keyFieldPath)
        varNameBase == params.info.fieldName \o "Filter"
        addedVar == addVariableDefinitionSafely(parts.variableDefinitions, varNameBase,
                                                params.filterType)
        addedField == addFieldSelectionSafely(parts.selectionSet, params.linkConfig.keyField)
        filterArgument == [kind |-> "Argument", path |-> <<filterArgumentName>>,
                           variable |-> addedVar.name]
        orderByArg == IF params.orderBy # None
                      THEN <<LiteralArgument("orderBy", params.orderBy)>> ELSE <<>>
        firstArg == IF params.first # None
                    THEN <<LiteralArgument("first", params.first)>> ELSE <<>>
        skipArg == IF params.skip # None /\ params.skip # 0
                   THEN <<LiteralArgument("skip", params.skip)>> ELSE <<>>
    IN [by |-> "fetchJoinedObjects", keyFieldAlias |-> addedField.alias,
        resolve |-> [targetFieldPath |-> parseLinkTargetPath(params.linkConfig.field).fieldPath,
                     schema |-> params.unlinkedSchema,
                     context |-> params.context,
                     variableDefinitions |-> addedVar.variableDefinitions,
                     variableValues |-> WithValue(parts.variableValues, addedVar.name, filterValue),
                     fragments |-> parts.fragments,
                     args |-> <<filterArgument>> \o orderByArg \o firstArg \o skipArg,
                     payloadSelectionSet |-> addedField.selectionSet,
                     path |-> params.info.path,
                     varName |-> addedVar.name]]

\* fetchJoinedObjects, lines 377-389: what follows `await basicResolve`
fetchJoinedObjectsReturn(keyFieldAlias, resolved_) ==
    IF resolved_.kind = "throw" THEN resolved_
    ELSE LET data == resolved_.value
             check == checkObjectsAndKeysForErrorValues(data, keyFieldAlias)
         IN IF ~isArray(data)
            THEN Thrown(Error("expected to be an array because batchMode is true"))
            ELSE IF check # Nil THEN check
            ELSE Returned([kind |-> "joined",
                           orderedObjects |-> data,
                           objectsByID |-> NewMap([i \in 1..Len(data.items) |->
                               <<GetProperty(data.items[i], keyFieldAlias).value, data.items[i]>>]),
                           keyFieldAlias |-> keyFieldAlias])

\* how the promise of a fetch settles once its sub-query has been answered
FetchReturn(params, fetch, resultData) ==
    LET resolved_ == basicResolveReturn(fetch.resolve, resultData)
    IN IF fetch.by = "fetchBatchWithKeyField"
       THEN fetchBatchWithKeyFieldReturn(params.keys, fetch.keyFieldAlias, resolved_)
       ELSE IF fetch.by = "fetchJoinedObjects"
       THEN fetchJoinedObjectsReturn(fetch.keyFieldAlias, resolved_)
       ELSE resolved_

(***************************************************************************)
(* Link calls and upstream answers                                         *)
(***************************************************************************)
MaxKeys == 3
MaxResults == 2

\* a ResponsePath: the key of a response level and the path of the level above
PathNode(prev, key) == [prev |-> prev, key |-> key]

LinkKeys == {Str("DE"), Str("FR")}

\* params.keys
KeySeqs == UNION {[1..n -> LinkKeys] : n \in 0..MaxKeys}

KeyFieldName == "code"

\* linkConfig: field and argument are dotted paths
LinkConfigs ==
    {[field |-> <<"countries">>, argument |-> <<"filter", "code">>,
      batchMode |-> b, keyField |-> kf] : b \in BOOLEAN, kf \in {None, KeyFieldName}}

\* the selection set of the link field: without the key field, with it, and
\* with another field under the key field's name as alias
LinkSelections ==
    {<<Selection(None, "name")>>, <<Selection(None, KeyFieldName)>>,
     <<Selection(KeyFieldName, "name")>>}

\* the variables the request already defines, and their values
LinkVariables ==
    {[definitions |-> <<>>, values |-> <<>>],
     [definitions |-> <<[name |-> "code", type |-> Named("String")]>>,
      values |-> [n \in {"code"} |-> Str("x")]]}

LinkInfos ==
    {[fragments |-> <<>>, selectionSet |-> s, variableDefinitions |-> v.definitions,
      variableValues |-> v.values, path |-> PathNode(PathNode(Nil, "person"), "country"),
      fieldName |-> "country"] :
        s \in LinkSelections, v \in LinkVariables}

\* the params of a fetchLinkedObjects call
LinkCalls ==
    {[fn |-> "fetchLinkedObjects", keys |-> k, keyType |-> Named("String"), linkConfig |-> c,
      unlinkedSchema |-> "unlinkedSchema", context |-> x, info |-> i] :
        k \in KeySeqs, c \in LinkConfigs, x \in Contexts, i \in LinkInfos}

\* a request that already defines variables under the names the join would
\* take first
JoinInfos ==
    {[fragments |-> <<>>, selectionSet |-> <<Selection(None, "name")>>,
      variableDefinitions |-> <<[name |-> "countryFilter", type |-> Named("CountryFilter")],
                                [name |-> "countryFilter2", type |-> Named("String")]>>,
      variableValues |-> [countryFilter |-> Obj(<<>>), countryFilter2 |-> Str("x")],
      path |-> PathNode(PathNode(Nil, "person"), "country"), fieldName |-> "country"]}

\* the user's filter and ordering of a joined field
JoinArguments ==
    {[additionalFilter |-> Obj(<<>>), orderBy |-> None],
     [additionalFilter |-> Obj([n \in {"name"} |-> Str("n1")]), orderBy |-> "name_ASC"],
     [additionalFilter |-> Obj([n \in {KeyFieldName} |-> Arr(<<Str("DE"), Str("IT")>>)]),
      orderBy |-> None],
     [additionalFilter |-> Obj([name |-> Str("n1"), code |-> Arr(<<Str("IT"), Str("FR")>>)]),
      orderBy |-> None]}

\* the join configurations: the key field directly below the filter argument,
\* two levels below it, and an argument without a key-field path
JoinConfig(argument) ==
    [field |-> <<"countries">>, argument |-> argument, batchMode |-> TRUE, keyField |-> KeyFieldName]

\* the user's filter when the key field lies below filter.country
NestedJoinArguments ==
    {[additionalFilter |-> Obj([country |-> Obj(<<>>)]), orderBy |-> None],
     [additionalFilter |-> Obj([name |-> Str("n1"),
                                country |-> Obj([name |-> Str("n2"),
                                                 code |-> Arr(<<Str("DE"), Str("IT")>>)])]),
      orderBy |-> None]}

\* no filter was given by the user
NoJoinArguments == {[additionalFilter |-> UndefinedValue, orderBy |-> None]}

JoinArgumentsOf(c) ==
    IF Len(c.argument) = 1 THEN NoJoinArguments
    ELSE IF Len(c.argument) = 2 THEN JoinArguments
    ELSE NestedJoinArguments

JoinConfigs ==
    {JoinConfig(<<"filter", KeyFieldName>>), JoinConfig(<<"filter", "country", KeyFieldName>>),
     JoinConfig(<<"filter">>)}

\* the params of a fetchJoinedObjects call
JoinCalls ==
    UNION {{[fn |-> "fetchJoinedObjects", keys |-> k, additionalFilter |-> a.additionalFilter,
             orderBy |-> a.orderBy, first |-> None, skip |-> None,
             filterType |-> Named("CountryFilter"), keyType |-> Named("String"), linkConfig |-> c,
             unlinkedSchema |-> "unlinkedSchema", context |-> "ctx1", info |-> i] :
               k \in KeySeqs, a \in JoinArgumentsOf(c), i \in LinkInfos \cup JoinInfos} :
                 c \in JoinConfigs}

\* the values an upstream may return for a selected field
FieldValues(name) ==
    IF name = KeyFieldName
    THEN LinkKeys \cup {Str("IT"), FieldErrorValue("boom")}
    ELSE {Str("n1"), Str("n2")}

\* the objects an upstream may return for a selection set
ObjectsOf(selectionSet) ==
    LET keys == {OutputKey(selectionSet[i]) : i \in 1..Len(selectionSet)}
        nameOf(k) == selectionSet[CHOOSE i \in 1..Len(selectionSet) :
                                      OutputKey(selectionSet[i]) = k].name
        all == UNION {FieldValues(selectionSet[i].name) : i \in 1..Len(selectionSet)}
    IN {Obj(f) : f \in {g \in [keys -> all] : \A k \in keys : g[k] \in FieldValues(nameOf(k))}}

\* the values an upstream may return at the target field of a fetch
TargetValues(fetch) ==
    LET objects == ObjectsOf(fetch.resolve.payloadSelectionSet)
        one == CHOOSE o \in objects : TRUE
    IN IF fetch.by = "fetchSingular"
       THEN {one, Null, FieldErrorValue("boom")}
       ELSE {Arr(items) : items \in UNION {[1..n -> objects \cup {Null}] : n \in 0..MaxResults}}
            \cup {one, Null, FieldErrorValue("boom")}

\* how assertSuccessfulResult(moveErrorsToData(result, ...)) may end for the
\* sub-query of a fetch: with the data, errors moved into it as field error
\* values, or by throwing a global error
Answers(fetch) ==
    {Returned(Obj([n \in {Last(fetch.resolve.targetFieldPath)} |-> v])) : v \in TargetValues(fetch)}
    \cup {Returned(Obj(<<>>)), Thrown(Error("GraphQL error"))}

(***************************************************************************)
(* fetchLinkedObjects as a state machine                                   *)
(***************************************************************************)
LIdle ==
    /\ linkCall = Nil
    /\ executed = <<>>
    /\ responses = <<>>
    /\ settled = <<>>
    /\ lpc = "idle"

LInit ==
    /\ linkCall \in LinkCalls \cup JoinCalls
    /\ executed = <<>>
    /\ responses = <<>>
    /\ settled = <<>>
    /\ lpc = "called"

\* fetchLinkedObjects up to its return: every fetch it starts runs up to the
\* execute() call of basicResolve
FetchLinkedObjects ==
    /\ lpc = "called"
    /\ linkCall.fn = "fetchLinkedObjects"
    /\ LET fetches == fetchLinkedObjects(linkCall)
       IN /\ executed' = [i \in 1..Len(fetches) |->
                             [fetch |-> fetches[i], call |-> basicResolveExecute(fetches[i].resolve)]]
          /\ responses' = [i \in 1..Len(fetches) |-> Nil]
          /\ settled' = [i \in 1..Len(fetches) |-> Nil]
          /\ lpc' = IF Len(fetches) = 0 THEN "settled" ELSE "awaiting"
    /\ UNCHANGED linkCall
    /\ UNCHANGED notL

\* fetchJoinedObjects up to the execute() call of basicResolve, or up to the
\* exception it throws before
FetchJoinedObjects ==
    /\ lpc = "called"
    /\ linkCall.fn = "fetchJoinedObjects"
    /\ IF checkKeyFieldPath(linkCall.linkConfig) # Nil
       THEN /\ executed' = <<>>
            /\ responses' = <<>>
            /\ settled' = <<checkKeyFieldPath(linkCall.linkConfig)>>
            /\ lpc' = "settled"
       ELSE /\ LET fetch == fetchJoinedObjects(linkCall)
               IN executed' = <<[fetch |-> fetch, call |-> basicResolveExecute(fetch.resolve)]>>
            /\ responses' = <<Nil>>
            /\ settled' = <<Nil>>
            /\ lpc' = "awaiting"
    /\ UNCHANGED linkCall
    /\ UNCHANGED notL

\* the sub-query of fetch i is answered and the fetch runs to its end
Respond(i) ==
    /\ lpc = "awaiting"
    /\ responses[i] = Nil
    /\ \E answer \in Answers(executed[i].fetch) :
          /\ responses' = [responses EXCEPT ![i] = answer]
          /\ settled' = [settled EXCEPT ![i] = FetchReturn(linkCall, executed[i].fetch, answer)]
    /\ lpc' = IF \A j \in DOMAIN responses : j # i => responses[j] # Nil
              THEN "settled" ELSE "awaiting"
    /\ UNCHANGED <<linkCall, executed>>
    /\ UNCHANGED notL

LNext == FetchLinkedObjects \/ FetchJoinedObjects \/ \E i \in DOMAIN responses : Respond(i)

(***************************************************************************)
(* Claims on fetchLinkedObjects                                            *)
(***************************************************************************)
\* the value the upstream returned at the target field of fetch i, or Nil
\* when it returned none
TargetValueOf(i) ==
    LET answer == responses[i]
        field == Last(executed[i].fetch.resolve.targetFieldPath)
    IN IF answer = Nil \/ answer.kind = "throw" THEN Nil
       ELSE IF field \notin DOMAIN answer.value.fields THEN Nil
       ELSE answer.value.fields[field]

\* the upstream answered fetch i with a list of objects whose key-field
\* values, under the output key `alias`, are no error values
IsObjectList(i, alias) ==
    LET v == TargetValueOf(i)
    IN /\ v # Nil
       /\ isArray(v)
       /\ \A j \in 1..Len(v.items) :
             /\ v.items[j].kind = "object"
             /\ alias \in DOMAIN v.items[j].fields
             /\ v.items[j].fields[alias].kind = "string"

\* the output key under which the sent selection set selects the key field
SentKeyOutputKeys(i) ==
    LET sels == executed[i].call.document.innerFieldNode.selectionSet
    IN {OutputKey(sels[j]) : j \in {k \in 1..Len(sels) : sels[k].name = KeyFieldName}}

\* C6: in batched key-field mode, for input keys k1..kn and an upstream list
\* of objects in any order, the fetch returns a list of exactly n entries; the
\* i-th entry is a returned object whose key-field value, read under the
\* discovered keyFieldAlias, equals ki, and is null when no returned object
\* has that key; duplicate input keys each receive the same object.
C6_KeyFieldBatchReordersByKey ==
    \A i \in 1..Len(executed) :
        LET fetch == executed[i].fetch
            alias == fetch.keyFieldAlias
            keys == linkCall.keys
        IN (fetch.by = "fetchBatchWithKeyField" /\ IsObjectList(i, alias)) =>
              /\ SentKeyOutputKeys(i) = {alias}
              /\ settled[i].kind = "return"
              /\ isArray(settled[i].value)
              /\ Len(settled[i].value.items) = Len(keys)
              /\ \A j \in 1..Len(keys) :
                    LET entry == settled[i].value.items[j]
                        hits == {o \in Range(TargetValueOf(i).items) : o.fields[alias] = keys[j]}
                    IN /\ IF hits = {} THEN isNullish(entry) ELSE entry \in hits
                       /\ \A k \in 1..Len(keys) :
                             keys[k] = keys[j] => settled[i].value.items[k] = entry

\* keys [a, b, a] were answered by [b-object, a-object] while the user's
\* selection set uses the key field's name as the alias of another field
C6_Witness ==
    /\ lpc = "settled"
    /\ Len(executed) = 1
    /\ executed[1].fetch.by = "fetchBatchWithKeyField"
    /\ executed[1].fetch.keyFieldAlias # KeyFieldName
    /\ IsObjectList(1, executed[1].fetch.keyFieldAlias)
    /\ LET alias == executed[1].fetch.keyFieldAlias
           keys == linkCall.keys
           items == TargetValueOf(1).items
       IN /\ Len(keys) = 3 /\ keys[1] # keys[2] /\ keys[3] = keys[1]
          /\ Len(items) = 2
          /\ items[1].fields[alias] = keys[2]
          /\ items[2].fields[alias] = keys[1]
          /\ settled[1] = Returned(Arr(<<items[2], items[1], items[2]>>))

\* the variables a sub-query carries beyond those of the original field
AddedVariables(i) ==
    DOMAIN executed[i].call.variableValues \ DOMAIN linkCall.info.variableValues

\* sub-query i carries `value` as the value of the one variable it adds
CarriesAsOneVariable(i, value) ==
    \E name \in AddedVariables(i) :
        /\ AddedVariables(i) = {name}
        /\ executed[i].call.variableValues[name] = value

\* C7: fetchLinkedObjects called with n keys executes exactly one sub-query
\* when batchMode is true, carrying all n keys (duplicates and input order
\* kept) as the value of one list variable, and exactly n sub-queries, one per
\* key with that key as the variable value, when batchMode is false.
C7_OneSubQueryPerBatchOrPerKey ==
    (linkCall.fn = "fetchLinkedObjects" /\ lpc \in {"awaiting", "settled"}) =>
        IF linkCall.linkConfig.batchMode
        THEN /\ Len(executed) = 1
             /\ CarriesAsOneVariable(1, Arr(linkCall.keys))
             /\ \E d \in Range(executed[1].call.document.variableDefinitions) :
                   d.name \in AddedVariables(1) /\ d.type.ofType.kind = "List"
        ELSE /\ Len(executed) = Len(linkCall.keys)
             /\ \A i \in 1..Len(executed) : CarriesAsOneVariable(i, linkCall.keys[i])

\* a batched call with keys [a, b, a] has executed its sub-query, in a
\* request that already defines a variable of the link argument's name
C7_Witness ==
    /\ lpc \in {"awaiting", "settled"}
    /\ linkCall.fn = "fetchLinkedObjects"
    /\ linkCall.linkConfig.batchMode
    /\ Len(linkCall.keys) = 3
    /\ linkCall.keys[1] # linkCall.keys[2]
    /\ linkCall.keys[3] = linkCall.keys[1]
    /\ Len(linkCall.info.variableDefinitions) = 1
    /\ Len(executed) = 1
    /\ executed[1].call.variableValues["code2"] = Arr(linkCall.keys)

\* the fetch that serves the parent at position j of the keys, and the
\* position of the parent within that fetch
FetchOfParent(j) == IF linkCall.linkConfig.batchMode THEN 1 ELSE j

\* the upstream objects that belong to the parent at position j: the answer
\* of its own sub-query, the item at its position of a one-to-one batch, the
\* items carrying its key in a key-field batch that returned objects only, at
\* most one per parent
LinkedObjectsOf(j) ==
    LET i == FetchOfParent(j)
        v == TargetValueOf(i)
        fetch == executed[i].fetch
    IN IF v = Nil THEN {}
       ELSE IF fetch.by = "fetchSingular"
            THEN (IF v.kind = "object" THEN {v} ELSE {})
       ELSE IF ~isArray(v) THEN {}
       ELSE IF fetch.by = "fetchBatchOneToOne"
            THEN (IF j <= Len(v.items) /\ v.items[j].kind = "object" THEN {v.items[j]} ELSE {})
       ELSE IF /\ Len(v.items) <= Len(linkCall.keys)
               /\ \A k \in 1..Len(v.items) :
                     v.items[k].kind = "object" /\ fetch.keyFieldAlias \in DOMAIN v.items[k].fields
            THEN {o \in Range(v.items) : o.fields[fetch.keyFieldAlias] = linkCall.keys[j]}
       ELSE {}

\* what fetchLinkedObjects hands to its caller for the parent at position j,
\* or Nil when the promise that holds it was rejected
DeliveredTo(j) ==
    LET i == FetchOfParent(j)
    IN IF settled[i] = Nil \/ settled[i].kind = "throw" THEN Nil
       ELSE IF executed[i].fetch.by = "fetchSingular" THEN settled[i].value
       ELSE IF isArray(settled[i].value) /\ j <= Len(settled[i].value.items)
            THEN settled[i].value.items[j]
       ELSE Nil

\* C11: when a linked field is resolved for a list of parents, a failure of
\* the link for one parent (its sub-query failing, or its joined object
\* carrying an error value) leaves the linked results of the other parents
\* available to the caller, in single-object mode and in both batched modes:
\* once every sub-query is answered, each parent whose object the upstream
\* returned has been handed that object.
C11_SiblingResultsSurviveFailure ==
    (linkCall.fn = "fetchLinkedObjects" /\ lpc = "settled") =>
        \A j \in 1..Len(linkCall.keys) :
            LinkedObjectsOf(j) # {} => DeliveredTo(j) \in LinkedObjectsOf(j)

\* (used to cross-check C11) the same holds in single-object mode and in the
\* one-to-one batch mode
SiblingResultsSurviveWithoutKeyField ==
    (linkCall.fn = "fetchLinkedObjects" /\ lpc = "settled" /\ linkCall.linkConfig.keyField = None) =>
        \A j \in 1..Len(linkCall.keys) :
            LinkedObjectsOf(j) # {} => DeliveredTo(j) \in LinkedObjectsOf(j)

\* fetch i reads key fields: key-field batch mode or join mode
ReadsKeyField(i) == executed[i].fetch.by \in {"fetchBatchWithKeyField", "fetchJoinedObjects"}

\* the key-field value of some object of the list v is a field error value
HasErrorKey(v, alias) ==
    \E k \in 1..Len(v.items) :
        /\ v.items[k].kind = "object"
        /\ alias \in DOMAIN v.items[k].fields
        /\ v.items[k].fields[alias].kind = "FieldErrorValue"

KeyFieldError == Error("Errors retrieving key field")

\* C19: in key-field batch mode and in join mode, if the key-field value of
\* any returned object is a field error value the call fails with a key-field
\* error and returns neither a partial result list nor a key-to-object map;
\* if no key-field value is an error value, no key-field error is raised.
C19_ErrorKeyFailsWholeCall ==
    \A i \in 1..Len(executed) :
        (ReadsKeyField(i) /\ settled[i] # Nil /\ TargetValueOf(i) # Nil /\ isArray(TargetValueOf(i))) =>
            IF HasErrorKey(TargetValueOf(i), executed[i].fetch.keyFieldAlias)
            THEN settled[i] = Thrown(KeyFieldError)
            ELSE settled[i] # Thrown(KeyFieldError)

\* (used to cross-check C19) the claim holds when the returned list holds
\* objects only, and a call that fails returns nothing
ErrorKeyFailsWholeCallOfObjectLists ==
    \A i \in 1..Len(executed) :
        (ReadsKeyField(i) /\ settled[i] # Nil /\ TargetValueOf(i) # Nil /\ isArray(TargetValueOf(i))) =>
            LET v == TargetValueOf(i)
            IN /\ (\A k \in 1..Len(v.items) : v.items[k].kind = "object") =>
                     (settled[i] = Thrown(KeyFieldError)
                          <=> HasErrorKey(v, executed[i].fetch.keyFieldAlias))
               /\ ~HasErrorKey(v, executed[i].fetch.keyFieldAlias) =>
                     settled[i] # Thrown(KeyFieldError)

\* (used to cross-check C19) a join call was answered by two objects without
\* error keys and returned the list and the map
JoinReturnsListAndMap ==
    /\ lpc = "settled"
    /\ linkCall.fn = "fetchJoinedObjects"
    /\ settled[1].kind = "return"
    /\ Len(settled[1].value.orderedObjects.items) = 2
    /\ Len(settled[1].value.objectsByID) = 2

RECURSIVE ValueAt(_, _)
\* the property of value v at path, undefined when there is none
ValueAt(v, path) ==
    IF path = <<>> THEN v
    ELSE IF v.kind = "object" /\ Head(path) \in DOMAIN v.fields
         THEN ValueAt(v.fields[Head(path)], Tail(path))
         ELSE UndefinedValue

RECURSIVE ApartFrom(_, _)
\* object v without the property at path: all its other properties
ApartFrom(v, path) ==
    IF Len(path) = 1
    THEN Obj([k \in DOMAIN v.fields \ {path[1]} |-> v.fields[k]])
    ELSE Obj([k \in DOMAIN v.fields |->
                 IF k = Head(path) THEN ApartFrom(v.fields[k], Tail(path)) ELSE v.fields[k]])

\* a join call with a key-field path has built its sub-query
JoinExecuted ==
    /\ lpc # "called"
    /\ linkCall.fn = "fetchJoinedObjects"
    /\ Len(linkCall.linkConfig.argument) > 1

\* the value of the filter variable of the join sub-query
SentFilter == executed[1].call.variableValues[executed[1].fetch.resolve.varName]

NestedFilterMerged ==
    /\ JoinExecuted
    /\ Len(linkCall.linkConfig.argument) = 3
    /\ ValueAt(linkCall.additionalFilter, <<"country", "name">>) = Str("n2")
    /\ ValueAt(SentFilter, <<"country", "name">>) = Str("n2")
    /\ Len(ValueAt(SentFilter, <<"country", "code">>).items) = 1

\* the names of a list of variable definitions
DefinedNames(variableDefinitions) ==
    {variableDefinitions[k].name : k \in 1..Len(variableDefinitions)}

\* the arguments of the target field that reference a variable
VariableArguments(call) ==
    SelectSeq(call.document.innerFieldNode.arguments, LAMBDA a : "variable" \in DOMAIN a)

\* what C22 says of sub-query i
AddsOneFreshVariable(i) ==
    LET call == executed[i].call
        varName == executed[i].fetch.resolve.varName
        old == linkCall.info.variableDefinitions
        new == call.document.variableDefinitions
    IN /\ varName \notin DefinedNames(old)
       /\ Len(new) = Len(old) + 1
       /\ \A k \in 1..Len(old) : new[k] = old[k]
       /\ new[Len(new)].name = varName
       /\ DOMAIN call.variableValues = DOMAIN linkCall.info.variableValues \cup {varName}
       /\ \A n \in DOMAIN linkCall.info.variableValues :
              call.variableValues[n] = linkCall.info.variableValues[n]
       /\ Len(VariableArguments(call)) = 1
       /\ VariableArguments(call)[1].variable = varName
       /\ call.document.innerFieldNode.arguments[1] = VariableArguments(call)[1]

\* C22: in every sub-query the link resolver builds (single, both batched
\* modes, join mode) the one variable it adds has a name that differs from
\* every variable already defined for the original field, the definition and
\* value of every pre-existing variable are carried over unchanged, the added
\* variable has a definition and a value, and the link argument references
\* exactly that variable.
C22_AddedVariableIsFresh ==
    \A i \in 1..Len(executed) : AddsOneFreshVariable(i)

\* a join sub-query was built for a request that defines countryFilter and
\* countryFilter2 already
C22_Witness ==
    /\ Len(executed) = 1
    /\ executed[1].fetch.by = "fetchJoinedObjects"
    /\ DefinedNames(linkCall.info.variableDefinitions) = {"countryFilter", "countryFilter2"}
    /\ executed[1].fetch.resolve.varName = "countryFilter3"

\* (used to cross-check C22) a sub-query for a single key was built for a
\* request that defines the variable code already
SingleKeyVariableRenamed ==
    /\ Len(executed) > 0
    /\ executed[1].fetch.by = "fetchSingular"
    /\ "code" \in DefinedNames(linkCall.info.variableDefinitions)
    /\ executed[1].fetch.resolve.varName = "code2"

ArrayExpectedError == Error("expected to be an array because batchMode is true")

\* fetch i reads key fields and was answered with a value at the target field
\* that is no array
AnsweredWithoutArray(i) ==
    /\ ReadsKeyField(i)
    /\ settled[i] # Nil
    /\ TargetValueOf(i) # Nil
    /\ ~isArray(TargetValueOf(i))

\* fetch i failed as C25 says a fetch answered without an array fails
FailedForWantOfArray(i) ==
    \/ settled[i] = Thrown(ArrayExpectedError)
    \/ /\ TargetValueOf(i).kind = "FieldErrorValue"
       /\ settled[i] \in {Thrown(Error("Field reported error")),
                          Thrown(Error(TargetValueOf(i).message))}

\* C25: in both batched modes that need a list (fetchBatchWithKeyField and
\* fetchJoinedObjects), whenever the value unwrapped from the sub-query result
\* at the target field is not an array (an error value, null or a single
\* object), the call fails with the 'expected to be an array because
\* batchMode is true' error or the carried upstream error, never with an
\* unrelated failure raised while reading key fields.
C25_NonArrayFailsWithArrayError ==
    \A i \in 1..Len(executed) : AnsweredWithoutArray(i) => FailedForWantOfArray(i)

\* (used to cross-check C25) the claim holds in join mode, and in key-field
\* batch mode for an error value
NonArrayFailsWithArrayErrorInJoinMode ==
    \A i \in 1..Len(executed) :
        (/\ AnsweredWithoutArray(i)
         /\ \/ executed[i].fetch.by = "fetchJoinedObjects"
            \/ TargetValueOf(i).kind = "FieldErrorValue") => FailedForWantOfArray(i)

\* (used to cross-check C25) a join call answered with null failed with the
\* array error
JoinAnsweredWithNull ==
    /\ lpc = "settled"
    /\ linkCall.fn = "fetchJoinedObjects"
    /\ TargetValueOf(1) = Null
    /\ settled[1] = Thrown(ArrayExpectedError)

\* a join call whose linkConfig.argument names an argument only has run
JoinWithoutPathStarted ==
    /\ lpc # "called"
    /\ linkCall.fn = "fetchJoinedObjects"
    /\ Len(linkCall.linkConfig.argument) = 1

\* C26: fetchJoinedObjects raises a WeavingError, before building or executing
\* any sub-query, when linkConfig.argument names only an argument and has no
\* dotted key-field path after it.
C26_ArgumentWithoutPathRejected ==
    JoinWithoutPathStarted =>
        /\ executed = <<>>
        /\ Len(settled) = 1
        /\ settled[1].kind = "throw"
        /\ settled[1].error.kind = "WeavingError"

\* (used to cross-check C26) with an argument without path and no filter of
\* the user, the sub-query is executed with the list of keys as the value of
\* the filter variable
JoinWithoutPathSendsKeys ==
    (JoinWithoutPathStarted /\ linkCall.additionalFilter = UndefinedValue) =>
        /\ Len(executed) = 1
        /\ executed[1].call.document.innerFieldNode.arguments[1].path = linkCall.linkConfig.argument
        /\ executed[1].call.variableValues[executed[1].fetch.resolve.varName] = Arr(linkCall.keys)

\* (used to cross-check C26) such a join call has returned objects
JoinWithoutPathReturned ==
    /\ JoinWithoutPathStarted
    /\ lpc = "settled"
    /\ settled[1].kind = "return"
    /\ Len(settled[1].value.orderedObjects.items) = 1

\* every link sub-query is executed with the context of the call
LinkContextThreaded ==
    \A i \in 1..Len(executed) : executed[i].call.context = linkCall.context

(***************************************************************************)
(* prefixGraphQLErrorPath                                                  *)
(***************************************************************************)
MaxPathLen == 2

\* an AST node: loc is UndefinedValue or a location
Loc(start, source) == [kind |-> "Location", start |-> start, source |-> source]
AstNode(loc) == [kind |-> "Node", loc |-> loc]

\* the locations of the nodes of a list that have one
LocsOf(nodes) == SelectSeq([i \in 1..Len(nodes) |-> nodes[i].loc], LAMBDA l : l.kind = "Location")

\* new GraphQLError(message, nodes, source, positions, path, originalError):
\* an empty node list is dropped, a missing source is taken from the first
\* node, missing positions are taken from the nodes
GraphQLError(message, nodes, source, positions, path, originalError) ==
    LET nodes_ == IF isArray(nodes) /\ nodes.items # <<>> THEN nodes ELSE UndefinedValue
        source_ == IF source.kind = "undefined" /\ isArray(nodes_)
                      /\ nodes_.items[1].loc.kind = "Location"
                   THEN nodes_.items[1].loc.source ELSE source
        located == IF positions.kind = "undefined" /\ isArray(nodes_)
                   THEN LET locs == LocsOf(nodes_.items)
                        IN Arr([i \in 1..Len(locs) |-> locs[i].start])
                   ELSE positions
        positions_ == IF isArray(located) /\ located.items = <<>> THEN UndefinedValue ELSE located
    IN [kind |-> "GraphQLError", message |-> message, nodes |-> nodes_, source |-> source_,
        positions |-> positions_, path |-> path, originalError |-> originalError]

RECURSIVE responsePathToArrayLeafFirst(_)
\* the keys of a response path from the innermost level outwards
responsePathToArrayLeafFirst(path) ==
    IF path = Nil THEN <<>>
    ELSE <<path.key>> \o responsePathToArrayLeafFirst(path.prev)

RECURSIVE responsePathToArray(_)
\* responsePathToArray, lines 509-517
responsePathToArray(path) ==
    IF path = Nil THEN <<>>
    ELSE responsePathToArray(path.prev) \o <<path.key>>

\* Array.prototype.slice(start)
slice(s, start) == IF start >= Len(s) THEN <<>> ELSE SubSeq(s, start + 1, Len(s))

\* prefixGraphQLErrorPath, lines 498-507
prefixGraphQLErrorPath(error_, pathPrefix_, removePrefixLength_) ==
    IF error_.kind # "GraphQLError" \/ error_.path.kind = "undefined" THEN error_
    ELSE LET newPath == responsePathToArray(pathPrefix_)
                            \o slice(error_.path.items, removePrefixLength_)
         IN GraphQLError(error_.message, error_.nodes, error_.source, error_.positions,
                         Arr(newPath), error_.originalError)

\* the keys of response paths
PathKeys == {"countries", "0"}

RECURSIVE ResponsePaths(_)
\* the response paths of at most n levels
ResponsePaths(n) ==
    IF n = 0 THEN {Nil}
    ELSE LET shorter == ResponsePaths(n - 1)
         IN shorter \cup {PathNode(p, k) : p \in shorter, k \in PathKeys}

\* error.path: a list of keys, or undefined
ErrorPaths ==
    {Arr(s) : s \in UNION {[1..n -> PathKeys] : n \in 0..MaxPathLen}} \cup {UndefinedValue}

NodeLists ==
    {UndefinedValue, Arr(<<AstNode(UndefinedValue)>>),
     Arr(<<AstNode(Loc(7, Str("query")))>>)}

\* the errors an execution result may carry: GraphQLErrors as their
\* constructor builds them, and other errors
ErrorsIn ==
    {GraphQLError(m, n, s, p, path, o) :
        m \in {"boom"}, n \in NodeLists, s \in {UndefinedValue, Str("document")},
        p \in {UndefinedValue, Arr(<<3>>)}, path \in ErrorPaths,
        o \in {UndefinedValue, Error("cause")}}
    \cup {Error("boom")}

EIdle ==
    /\ error = Nil
    /\ pathPrefix = Nil
    /\ removePrefixLength = 0
    /\ newError = Nil
    /\ epc = "idle"

EInit ==
    /\ error \in ErrorsIn
    /\ pathPrefix \in ResponsePaths(MaxPathLen)
    /\ removePrefixLength \in 0..(MaxPathLen + 1)
    /\ newError = Nil
    /\ epc = "called"

\* moveErrorsToData maps an error of the result through prefixGraphQLErrorPath
PrefixGraphQLErrorPath ==
    /\ epc = "called"
    /\ newError' = prefixGraphQLErrorPath(error, pathPrefix, removePrefixLength)
    /\ epc' = "returned"
    /\ UNCHANGED <<error, pathPrefix, removePrefixLength>>
    /\ UNCHANGED notE

ENext == PrefixGraphQLErrorPath

RECURSIVE PathDepth(_)
\* the number of levels of a response path
PathDepth(path) == IF path = Nil THEN 0 ELSE 1 + PathDepth(path.prev)

RECURSIVE Ancestor(_, _)
\* the level k levels above the innermost level of a response path
Ancestor(path, k) == IF k = 0 THEN path ELSE Ancestor(path.prev, k - 1)

\* the keys of a response path, outermost level first
RootFirst(path) ==
    [i \in 1..PathDepth(path) |-> Ancestor(path, PathDepth(path) - i).key]

\* C8: for every GraphQLError that has a path, prefixGraphQLErrorPath returns
\* an error whose path is the outer response path flattened root-first,
\* followed by the error's own path without its first removePrefixLength
\* segments, and whose message, nodes, source, positions and originalError
\* equal those of the input error.
C8_ErrorPathPrefixed ==
    (epc = "returned" /\ error.kind = "GraphQLError" /\ isArray(error.path)) =>
        LET own == error.path.items
            kept == [i \in 1..(Len(own) - removePrefixLength) |-> own[i + removePrefixLength]]
        IN /\ newError.kind = "GraphQLError"
           /\ newError.path = Arr(RootFirst(pathPrefix) \o kept)
           /\ newError.message = error.message
           /\ newError.nodes = error.nodes
           /\ newError.source = error.source
           /\ newError.positions = error.positions
           /\ newError.originalError = error.originalError

\* an error with a two-segment path and located nodes was rewritten under a
\* two-level outer path, dropping one segment
C8_Witness ==
    /\ epc = "returned"
    /\ error.kind = "GraphQLError"
    /\ isArray(error.path)
    /\ error.path.items = <<"countries", "0">>
    /\ isArray(error.nodes)
    /\ error.originalError # UndefinedValue
    /\ pathPrefix = PathNode(PathNode(Nil, "countries"), "0")
    /\ removePrefixLength = 1
    /\ newError.path = Arr(<<"countries", "0", "0">>)

(***************************************************************************)
(* ResolverTransformer: the resolver of a root field.  The query is built  *)
(* from the aliases of the response path and executed; moveErrorsToData    *)
(* and assertSuccessfulResult then give the data or throw a global error.  *)
(***************************************************************************)
RIdle ==
    /\ rootInfo = Nil
    /\ rootExecuted = Nil
    /\ rootResult = Nil
    /\ rootReturned = Nil

RootAliases == {"a", "b"}

RECURSIVE RootPaths(_)
\* the response paths of one to n aliases
RootPaths(n) ==
    IF n = 0 THEN {}
    ELSE LET shorter == RootPaths(n - 1)
         IN shorter \cup {PathNode(p, k) : p \in shorter \cup {Nil}, k \in RootAliases}

RootInit ==
    /\ rootInfo \in {[path |-> p, context |-> x] : p \in RootPaths(MaxPathLen), x \in Contexts}
    /\ rootExecuted = Nil
    /\ rootResult = Nil
    /\ rootReturned = Nil

RECURSIVE collectAliasesInResponsePath(_)
\* resolver-utils: the alias at every level of a response path, root first
collectAliasesInResponsePath(path) ==
    IF path = Nil THEN <<>>
    ELSE collectAliasesInResponsePath(path.prev) \o <<path.key>>

\* typeof data
TypeOf(v) ==
    CASE v.kind = "string" -> "string"
      [] v.kind = "undefined" -> "undefined"
      [] OTHER -> "object"

\* `key in v` for a value whose typeof is 'object': Nil, or what it throws;
\* HasOwnOrInherited tells what it yields when it does not throw
InThrows(key, v) == IF v.kind = "null" THEN Thrown(TypeError) ELSE Nil

HasOwnOrInherited(key, v) ==
    v.kind = "object" /\ (key \in DOMAIN v.fields \/ key \in ObjectPrototypeKeys)

ExpectedPropertyError == Error("Expected GraphQL endpoint to return object with property")

\* transformField's resolve, lines 485-492: what follows
\* assertSuccessfulResult(moveErrorsToData(...)), which ended as `answer`
rootResolveReturn(aliases, answer) ==
    IF answer.kind = "throw" THEN answer
    ELSE LET data == answer.value
             propertyOnResult == aliases[Len(aliases)]
         IN IF TypeOf(data) # "object" THEN Thrown(ExpectedPropertyError)
            ELSE IF InThrows(propertyOnResult, data) # Nil THEN InThrows(propertyOnResult, data)
            ELSE IF ~HasOwnOrInherited(propertyOnResult, data) THEN Thrown(ExpectedPropertyError)
            ELSE Returned(GetProperty(data, propertyOnResult).value)

\* the data an upstream may answer with, errors moved into it
RootDataValues ==
    LET leaves == {Str("v"), Null, FieldErrorValue("boom")}
        values == leaves \cup {Obj([k \in {key} |-> v]) : key \in RootAliases, v \in leaves}
    IN {Null, UndefinedValue, Str("text"), Arr(<<>>), Obj(<<>>)}
           \cup {Obj([k \in {key} |-> v]) : key \in RootAliases, v \in values}

RootAnswers == {Returned(d) : d \in RootDataValues} \cup {Thrown(Error("GraphQL error"))}

\* the resolver up to `await this.config.client.execute(...)`, lines 473-483
ExecuteRootQuery ==
    /\ rootInfo # Nil
    /\ rootExecuted = Nil
    /\ rootExecuted' = [aliases |-> collectAliasesInResponsePath(rootInfo.path),
                        context |-> rootInfo.context]
    /\ UNCHANGED <<rootInfo, rootResult, rootReturned>>
    /\ UNCHANGED notR

\* the upstream answers and the resolver runs to its end, lines 484-492
RootRespond ==
    /\ rootExecuted # Nil
    /\ rootResult = Nil
    /\ \E answer \in RootAnswers :
          /\ rootResult' = answer
          /\ rootReturned' = rootResolveReturn(rootExecuted.aliases, answer)
    /\ UNCHANGED <<rootInfo, rootExecuted>>
    /\ UNCHANGED notR

RNext == ExecuteRootQuery \/ RootRespond

\* the response data is an object that contains the expected result key
HoldsResultKey(data, key) == data.kind = "object" /\ key \in DOMAIN data.fields

\* C18: in the root-field resolver of ResolverTransformer, whenever the
\* upstream response data is not an object that contains the expected result
\* key, data that is null or a non-object value included, the resolver raises
\* the 'Expected GraphQL endpoint to return object with property' error: it
\* returns no value and fails with no other error.
C18_MissingResultKeyRaisesExpectedError ==
    (rootReturned # Nil /\ rootResult.kind = "return"
        /\ ~HoldsResultKey(rootResult.value, Last(rootExecuted.aliases)))
            => rootReturned = Thrown(ExpectedPropertyError)

\* (used to cross-check C18) the claim holds for every data but null
MissingResultKeyRaisesExpectedErrorUnlessNull ==
    (rootReturned # Nil /\ rootResult.kind = "return"
        /\ rootResult.value # Null
        /\ ~HoldsResultKey(rootResult.value, Last(rootExecuted.aliases)))
            => rootReturned = Thrown(ExpectedPropertyError)

RECURSIVE HoldsPath(_, _)
\* data holds a value under the aliases, followed in order from its top
HoldsPath(data, aliases) ==
    \/ aliases = <<>>
    \/ /\ HoldsResultKey(data, Head(aliases))
       /\ HoldsPath(data.fields[Head(aliases)], Tail(aliases))

\* the resolver has ended after an upstream response without global error
RootSucceeded == rootReturned # Nil /\ rootResult.kind = "return"

\* C24: on a successful upstream response the root-field resolver returns the
\* value found in the response data by following the whole alias path from
\* the operation root to the resolved field, every alias of the response path
\* in order, for response paths of any depth of one or more.
C24_RootResolverFollowsAliasPath ==
    (RootSucceeded /\ HoldsPath(rootResult.value, rootExecuted.aliases)) =>
        rootReturned = Returned(ValueAt(rootResult.value, rootExecuted.aliases))

\* (used to cross-check C24) the resolver returns the value the response data
\* holds at its top under the last alias of the response path, whatever the
\* depth; for a path of one alias that is the value under the whole path
RootResolverReadsLastAlias ==
    LET aliases == rootExecuted.aliases
    IN /\ (RootSucceeded /\ HoldsResultKey(rootResult.value, aliases[Len(aliases)])) =>
              rootReturned = Returned(rootResult.value.fields[aliases[Len(aliases)]])
       /\ (RootSucceeded /\ Len(aliases) = 1 /\ HoldsPath(rootResult.value, aliases)) =>
              rootReturned = Returned(ValueAt(rootResult.value, aliases))

\* (used to cross-check C24) a field at depth two got the value the data holds
\* at its top under the field's own alias
DeepFieldReadAtTop ==
    /\ RootSucceeded
    /\ rootExecuted.aliases = <<"a", "b">>
    /\ rootResult.value = Obj([k \in {"b"} |-> Str("v")])
    /\ rootReturned = Returned(Str("v"))

\* every root query is executed with the context of the resolver call
RootContextThreaded == rootExecuted # Nil => rootExecuted.context = rootInfo.context

(***************************************************************************)
(* getKeyType: the type of the key variable of a link                      *)
(***************************************************************************)
\* the named types of the linked schema, by category
KeyTypeKinds ==
    [String |-> "Scalar", ID |-> "Scalar", Int |-> "Scalar", Country |-> "Object",
     Continent |-> "Enum", CountryFilter |-> "InputObject", CodeFilter |-> "InputObject"]

\* getFields() of the input object types
InputFieldsOf ==
    [CountryFilter |-> <<InputField("code", Named("String"), None),
                         InputField("id", NonNullOf(Named("ID")), None),
                         InputField("codes", ListOf(NonNullOf(Named("String"))), None),
                         InputField("continent", Named("Continent"), None),
                         InputField("nested", Named("CodeFilter"), None)>>,
     CodeFilter |-> <<InputField("code", Named("String"), None)>>]

RECURSIVE getNamedType(_)
\* graphql.getNamedType: strips list and non-null wrappers
getNamedType(type) ==
    IF type.kind \in {"List", "NonNull"} THEN getNamedType(type.ofType) ELSE type

\* type instanceof GraphQLScalarType
IsScalarType(type) == type.kind = "Named" /\ KeyTypeKinds[type.name] = "Scalar"

\* type instanceof GraphQLInputObjectType: a wrapped type is no input object type
IsInputObjectType(type) == type.kind = "Named" /\ KeyTypeKinds[type.name] = "InputObject"

\* type.getFields()[fieldName], Nil when the type has no such field
InputFieldNamed(type, fieldName) ==
    LET fs == SelectSeq(InputFieldsOf[type.name], LAMBDA f : f.name = fieldName)
    IN IF Len(fs) = 0 THEN Nil ELSE fs[1]

RECURSIVE reduceKeyFieldPath(_, _)
\* keyFieldPath.reduce(...): follows the path through input object types
reduceKeyFieldPath(type, keyFieldPath) ==
    IF Len(keyFieldPath) = 0 THEN Returned(type)
    ELSE IF ~IsInputObjectType(type) \/ InputFieldNamed(type, Head(keyFieldPath)) = Nil
         THEN Thrown(Error("Argument path cannot be resolved"))
         ELSE reduceKeyFieldPath(InputFieldNamed(type, Head(keyFieldPath)).type, Tail(keyFieldPath))

getLinkArgumentType(linkConfig, targetField) ==
    LET filterArgumentName == Head(linkConfig.argument)
        keyFieldPath == Tail(linkConfig.argument)
        args == SelectSeq(targetField.args, LAMBDA arg : arg.name = filterArgumentName)
    IN IF Len(args) = 0
       THEN Thrown(WeavingError("Argument does not exist on target field"))
       ELSE reduceKeyFieldPath(args[1].type, keyFieldPath)

\* what getKeyType hands to config.reportError
reportMismatch(argumentType, linkKeyType) ==
    IF argumentType.name # linkKeyType.name
    THEN <<WeavingError("Link field type differs from argument type")>>
    ELSE <<>>

\* the outcome of getKeyType and the errors passed to the error consumer
getKeyType(config) ==
    LET linkKeyType == getNamedType(config.linkFieldType)
        linkArgumentType == getLinkArgumentType(config.linkConfig, config.targetField)
    IN IF linkArgumentType.kind = "throw"
       THEN [result |-> linkArgumentType, reported |-> <<>>]
       ELSE LET argumentType == getNamedType(linkArgumentType.value)
            IN IF ~IsScalarType(linkKeyType)
               THEN [result |-> Thrown(WeavingError("Type of @link field must be scalar type")),
                     reported |-> <<>>]
               ELSE IF ~IsScalarType(argumentType)
               THEN [result |-> Thrown(WeavingError("Type of argument field must be scalar type")),
                     reported |-> <<>>]
               ELSE [result |-> Returned(argumentType),
                     reported |-> reportMismatch(argumentType, linkKeyType)]

LinkFieldTypes ==
    {Named("String"), NonNullOf(Named("ID")), ListOf(NonNullOf(Named("Int"))), Named("ID"),
     Named("Country"), ListOf(Named("Continent"))}

LinkArguments ==
    {<<"code">>, <<"filter">>, <<"where">>, <<"filter", "code">>, <<"filter", "id">>,
     <<"filter", "codes">>, <<"filter", "continent">>, <<"filter", "missing">>,
     <<"filter", "nested", "code">>, <<"code", "length">>}

TargetFields ==
    {Field("countries", ListOf(Named("Country")),
           <<Arg("filter", Named("CountryFilter"), None), Arg("code", Named("String"), None)>>),
     Field("countries", ListOf(Named("Country")),
           <<Arg("filter", NonNullOf(Named("CountryFilter")), None),
             Arg("code", ListOf(NonNullOf(Named("ID"))), None)>>),
     Field("allCountries", ListOf(Named("Country")),
           <<Arg("code", NonNullOf(Named("Int")), None)>>)}

KeyTypeInit ==
    /\ fnCall \in {[fn |-> "getKeyType", linkFieldType |-> t, linkFieldName |-> "country",
                   targetField |-> f,
                   linkConfig |-> [field |-> <<f.name>>, argument |-> a, batchMode |-> FALSE,
                                   keyField |-> None]] :
                     t \in LinkFieldTypes, f \in TargetFields, a \in LinkArguments}
    /\ fnReturned = Nil

\* getKeyType is called with the configuration of the link
GetKeyType ==
    /\ fnCall # Nil
    /\ fnCall.fn = "getKeyType"
    /\ fnReturned = Nil
    /\ fnReturned' = getKeyType(fnCall)
    /\ UNCHANGED fnCall
    /\ UNCHANGED notF

KeyTypeNext == GetKeyType

RECURSIVE ArgumentTypeInSchema(_, _)
\* the type the schema gives the input field at the end of path below type;
\* a non-null wrapper of an input object type does not change its fields
ArgumentTypeInSchema(type, path) ==
    IF Len(path) = 0 THEN type
    ELSE LET nullable == IF type.kind = "NonNull" THEN type.ofType ELSE type
         IN IF nullable.kind # "Named" \/ KeyTypeKinds[nullable.name] # "InputObject" THEN Nil
            ELSE IF \A i \in 1..Len(InputFieldsOf[nullable.name]) :
                        InputFieldsOf[nullable.name][i].name # Head(path) THEN Nil
            ELSE LET i == CHOOSE i \in 1..Len(InputFieldsOf[nullable.name]) :
                              InputFieldsOf[nullable.name][i].name = Head(path)
                 IN ArgumentTypeInSchema(InputFieldsOf[nullable.name][i].type, Tail(path))

\* the type of the target argument of the call, Nil when the target field has
\* no such argument
TargetArgumentType ==
    LET path == fnCall.linkConfig.argument
        args == fnCall.targetField.args
    IN IF \A i \in 1..Len(args) : args[i].name # Head(path) THEN Nil
       ELSE LET i == CHOOSE i \in 1..Len(args) : args[i].name = Head(path)
            IN ArgumentTypeInSchema(args[i].type, Tail(path))

ScalarName(type) ==
    LET RECURSIVE Unwrap(_)
        Unwrap(t) == IF t.kind = "Named" THEN t.name ELSE Unwrap(t.ofType)
    IN IF KeyTypeKinds[Unwrap(type)] = "Scalar" THEN Unwrap(type) ELSE None

ThrewWeavingError == fnReturned.result.kind = "throw" /\ fnReturned.result.error.kind = "WeavingError"

\* the statement of C20 for a call that has returned or thrown
KeyTypeContract ==
    LET linkName == ScalarName(fnCall.linkFieldType)
        argName == IF TargetArgumentType = Nil THEN None ELSE ScalarName(TargetArgumentType)
    IN /\ (linkName # None /\ argName # None) =>
              /\ fnReturned.result = Returned(Named(argName))
              /\ IF linkName # argName
                 THEN Len(fnReturned.reported) = 1 /\ fnReturned.reported[1].kind = "WeavingError"
                 ELSE fnReturned.reported = <<>>
       /\ ThrewWeavingError => (linkName = None \/ argName = None)

\* C20: getKeyType, for a link field and a target argument that are both
\* scalar-typed, reports exactly one weaving error and still returns the
\* argument's scalar type when the scalar names differ, reports nothing when
\* they are equal, and throws a weaving error only when the link field type or
\* the argument type is not a scalar after unwrapping list and non-null.
C20_KeyTypeMismatchReportedNotThrown ==
    (fnCall # Nil /\ fnCall.fn = "getKeyType" /\ fnReturned # Nil) => KeyTypeContract

\* (used to cross-check C20) the statement holds for every call whose argument
\* path getLinkArgumentType resolves
KeyTypeContractWhenPathResolves ==
    (fnCall # Nil /\ fnCall.fn = "getKeyType" /\ fnReturned # Nil
        /\ getLinkArgumentType(fnCall.linkConfig, fnCall.targetField).kind = "return") =>
        KeyTypeContract

\* (used to cross-check C20) a mismatch of two scalars was reported and the
\* argument's type returned
MismatchReportedAndReturned ==
    /\ fnCall # Nil /\ fnCall.fn = "getKeyType" /\ fnReturned # Nil
    /\ fnCall.linkFieldType = NonNullOf(Named("ID"))
    /\ fnReturned.result = Returned(Named("String"))
    /\ Len(fnReturned.reported) = 1

(***************************************************************************)
(* Specifications                                                          *)
(***************************************************************************)
\* each specification starts one state machine and leaves the others idle
InitTransform == TInit /\ PIdle /\ LIdle /\ EIdle /\ FIdle /\ RIdle

SpecTransform == InitTransform /\ [][TNext]_vars

InitProxy == PInit /\ TIdle /\ LIdle /\ EIdle /\ FIdle /\ RIdle

SpecProxy == InitProxy /\ [][PNext]_vars

InitRouting == RoutingInit /\ TIdle /\ LIdle /\ EIdle /\ FIdle /\ RIdle

SpecRouting == InitRouting /\ [][PNext]_vars

InitLink == LInit /\ TIdle /\ PIdle /\ EIdle /\ FIdle /\ RIdle

SpecLink == InitLink /\ [][LNext]_vars

InitErr == EInit /\ TIdle /\ PIdle /\ LIdle /\ FIdle /\ RIdle

SpecErr == InitErr /\ [][ENext]_vars

InitCombine == CombineInit /\ TIdle /\ PIdle /\ LIdle /\ EIdle /\ RIdle

SpecCombine == InitCombine /\ [][CombineNext]_vars

InitRoot == RootInit /\ TIdle /\ PIdle /\ LIdle /\ EIdle /\ FIdle

SpecRoot == InitRoot /\ [][RNext]_vars

InitKeyType == KeyTypeInit /\ TIdle /\ PIdle /\ LIdle /\ EIdle /\ RIdle

SpecKeyType == InitKeyType /\ [][KeyTypeNext]_vars

====
